---- MODULE Spec2Model ----
(***************************************************************************)
(* Verification model of pyXapiand: the database pool (xapiand/core.py),   *)
(* the per-endpoint writer and its commit policy (server/worker.py,        *)
(* server/server.py, server/worker2.py), the command dispatcher            *)
(* (server/base.py), the search executor's cancellation points             *)
(* (xapiand/search.py) and the file-backed queue                           *)
(* (server/queue/persistent.py).                                           *)
(*                                                                         *)
(* Each subsystem has its own specification over the shared variables:     *)
(*   SpecPool   - DatabasesPool.database / CleanablePool.cleanup           *)
(*   SpecCommit - _writer_loop / _database_commit under wall time          *)
(*   SpecCommitFair - the same, every writer thread running on             *)
(*   SpecWriter - central queue, writer manager, sub-queues, writers       *)
(*   SpecInit   - connections' INIT bookkeeping and the writer's life      *)
(*   SpecConn   - one connection, its cmd_id and its threaded handlers     *)
(*   SpecFQ     - FileQueue.put / FileQueue.get over one log bucket        *)
(*   SpecRun    - server runs: start-up, kill, shutdown, writers roster    *)
(*   SpecDoc    - one endpoint's documents: writer, engine, reader         *)
(*   SpecLimits - the window Search.get_results asks the engine for        *)
(*   SpecSearch - concurrent clients' searches and the rows they receive   *)
(*   SpecSession - CREATE / OPEN / USING on one connection                 *)
(*   SpecShut   - shutdown signals and the close of the connections        *)
(*   SpecNames  - the names of the sub-queue a connection writes to        *)
(*   SpecReaders - connections' reads after their writes and REOPEN        *)
(* The variables of the other subsystems stay at their initial values.     *)
(***************************************************************************)
EXTENDS Integers, Sequences, FiniteSets, TLC

(***************************************************************************)
(* Bounds of the model.                                                    *)
(***************************************************************************)
NumAcquirers == 2      \* concurrent callers of DatabasesPool.database
MaxAcquisitions == 3   \* calls of DatabasesPool.database started during a run
MaxQueues == 2         \* DatabasesPoolQueue objects constructed during a run
NumWriters == 2        \* writers (endpoints) of the run
CommitSlots == 1       \* the commit_slots option of the run
TicksPerSecond == 2    \* resolution of the wall clock
MaxWrites == 3         \* write commands put on the sub-queues during a run
MaxMsgs == 3           \* commands sent towards the writers during a run
NumConns == 2          \* client connections
MaxIndex == 3          \* INDEX commands received during a run
MaxCmds == 3           \* command lines received on the connection
MaxMatches == 2        \* matches of a search
MaxOld == 2            \* undelivered records an earlier run left in the log
MaxPuts == 3           \* FileQueue.put calls of the run
MaxGets == 4           \* FileQueue.get calls of the run
MaxCorrupt == 1        \* records of the log damaged on disk during a run
MaxStarts == 3         \* times the server process is started
MaxQueued == 2         \* commands waiting on one persistent sub-queue
MaxDocCmds == 3        \* write commands sent to the endpoint during a run
MaxFaults == 4         \* consecutive transient failures of one engine call
NumClients == 2        \* clients that search concurrently
MaxRowSteps == 2       \* rows of one search sent one by one; the rest at once
MaxSessionCmds == 3
NumShutClients == 2    \* connections of one shutdown
IdleStep == 6          \* seconds that pass in one step of the clock
MaxIdle == 12          \* idle times are counted up to here
MaxNamed == 3          \* write commands of one connection for one endpoint
NumReaders == 2        \* connections that read the same endpoints
MaxStamp == 2          \* write and REOPEN commands received during a run
MaxReaderHandles == 3  \* reader handles opened during a run
    \* CREATE / OPEN / USING lines received on the connection
SlotSpace == 65536     \* number of value slots of the model's engine

(***************************************************************************)
(* Program constants.                                                      *)
(***************************************************************************)
PoolSize == 10         \* core.py:421  len(pool_queue.unused) < 10
CommitTimeout == 1     \* worker.py:33  COMMIT_TIMEOUT, in seconds
sync_age == 500        \* persistent.py:38  FileQueue.sync_age
MAX_DOCS == 10000      \* search.py:13
max_age == 10          \* worker.py:317  close(max_age=10)
MaxTries == 10         \* persistent.py:130  if tries > 10

VARIABLES
    \* ---- DatabasesPool (core.py) ----
    pool,       \* the dict itself: key -> DatabasesPoolQueue id, NoQ = no entry
    unused,     \* DatabasesPoolQueue.unused (deque, right end last)
    used,       \* DatabasesPoolQueue.used (set)
    cleaned,    \* DatabasesPoolQueue.cleaned
    qtime,      \* age of DatabasesPoolQueue.time: 0 now, 1 within the timeout, 2 beyond
    ptime,      \* age of CleanablePool.time: 0 within the timeout, 2 beyond
    closed,     \* handles whose database._closed is True
    whandles,   \* handles opened as xapian.WritableDatabase
    nh,         \* Database objects constructed so far
    nq,         \* DatabasesPoolQueue objects kept by setdefault so far
    nacq,       \* calls of DatabasesPool.database started so far
    acq,        \* acquirer -> frame of its call of DatabasesPool.database
    cleanups    \* queues evicted by a sweep whose cleanup() has not run yet

poolVars == <<pool, unused, used, cleaned, qtime, ptime, closed, whandles, nh, nq,
              nacq, acq, cleanups>>

VARIABLES
    \* ---- writers and commit policy (worker.py, server.py) ----
    STOPPED,     \* the module's stop flag
    commit_lock, \* free permits of Semaphore(commit_slots)
    wpc,         \* writer -> its position in _writer_loop
    to_commit,   \* writer -> None, or the ages <<now - dt0, now - dt1, now - dt2>>
                 \* in ticks of its to_commit entry (dt0, dt1, dt2)
    waited,      \* writer -> ticks spent in the current queue.get
    locked,      \* writer -> `locked` of its running _database_commit
    tq,          \* writer -> write commands waiting on its sub-queue
    nwrites      \* write commands put so far

commitVars == <<STOPPED, commit_lock, wpc, to_commit, waited, locked, tq, nwrites>>

VARIABLES
    \* ---- central queue, manager and sub-queues (worker.py) ----
    main_queue,  \* the central queue: envelopes (cmd, endpoints, args)
    QUEUES,      \* endpoint -> its sub-queue (tq): envelopes
    databases,   \* endpoints that have a running writer
    enqueued,    \* endpoint -> the commands put on its sub-queue, in order
    applied,     \* endpoint -> the commands its writer applied, in order
    nmsgs        \* commands sent so far

writerVars == <<main_queue, QUEUES, databases, enqueued, applied, nmsgs>>

VARIABLES
    \* ---- connections and the writer of one endpoint E (server.py) ----
    active,      \* connection -> its active_endpoints is (E,)
    do_reopen,   \* connection -> XapiandReceiver._do_reopen
    do_init,     \* connection -> (E,) is in XapiandReceiver._do_init
    inited,      \* connection -> (E,) is in XapiandReceiver._inited
    MAIN_QUEUE,  \* INIT envelopes for E waiting on MAIN_QUEUE
    inbox,       \* write envelopes waiting on E's sub-queue
    alive,       \* the writer thread of E is running its loop
    idle,        \* now - last > DATABASE_MAX_LIFE in E's writer
    nindex       \* INDEX commands received so far

initVars == <<active, do_reopen, do_init, inited, MAIN_QUEUE, inbox, alive, idle, nindex>>

VARIABLES
    \* ---- one connection and its threaded handlers (base.py, search.py) ----
    cmd_id,      \* the receiver's cmd_id
    hpc,         \* command number -> position of its handler
    left,        \* command number -> matches its search has still to yield
    client_cmd_id,  \* Connection.cmd_id of the client (connection.py:150)
    wire         \* lines sent: [by: the command whose handler sent the line,
                 \*              cur: cmd_id when it was sent, kind]

connVars == <<cmd_id, hpc, left, wire, client_cmd_id>>

VARIABLES
    \* ---- the file-backed queue (server/queue/persistent.py) ----
    bucket,      \* the log file <name>.0: records [seq, value], in file order
    fpos,        \* the offset stored in <name>.pos, in records
    spos,        \* self.spos: None or the tuple (offset, sync_age)
    items,       \* the memory queue of gevent's Queue: (seq, item) pairs
    seq,         \* self.seq
    QSTOPPED,    \* the class attribute FileQueue.STOPPED
    clock,       \* time.time()
    gpc,         \* the getter: "idle", or "waiting" in the blocking Queue.get
    fvalue,      \* the getter's local fvalue while it waits
    putlog,      \* observer: the values put, the earlier run's first
    returned,    \* observer: the values get has returned, in order
    ngets        \* observer: get calls so far

fqVars == <<bucket, fpos, spos, items, seq, QSTOPPED, clock, gpc, fvalue,
            putlog, returned, ngets>>

VARIABLES
    \* ---- runs of the server with a persistent queue (worker.py) ----
    server,        \* "down", "up", or "failed" when xapiand_run raised
    writers_file,  \* Xapian-Writers.db: whether it exists, the endpoints listed
    subq,          \* endpoint -> commands stored on its persistent sub-queue
    running,       \* endpoints whose entry of `databases` has a live writer
    nstarts        \* observer: starts so far

runVars == <<server, writers_file, subq, running, nstarts>>

VARIABLES
    \* ---- the documents of one endpoint (core.py, worker.py, search.py) ----
    dq,          \* the endpoint's sub-queue: [cmd, id, data]
    work,        \* the documents as the writable handle sees them
    disk,        \* the committed documents, what a reader sees on reopen
    lastdocid,   \* the engine's last document number
    timer,       \* the writer's to_commit has an entry for the endpoint
    wlife,       \* the writer: "running", or "raised" when its loop ended
    lastop,      \* observer: what the writer did last
    indexed,     \* observer: id -> contents of the index operations applied
    deleted,     \* observer: ids whose DELETE or CDELETE the writer took
                 \*           after the last index operation for the id
    rows,        \* rows of the last search
    notfound,    \* observer: documents of the last search whose data the
                 \*           engine did not find (DocNotFoundError)
    faults,      \* observer: transient failures the engine had in store for
                 \*           the writer's last facade operation
    attempts,    \* observer: engine calls that operation made
    ndoc         \* observer: commands sent so far

docVars == <<dq, work, disk, lastdocid, timer, wlife, lastop, indexed, deleted, rows,
             notfound, faults, attempts, ndoc>>

VARIABLES
    \* ---- the window of a search (search.py) ----
    first,           \* self.first
    maxitems,        \* self.maxitems
    check_at_least,  \* self.check_at_least
    get_matches,     \* self.get_matches
    doccount,        \* database.get_doccount()
    mset             \* None, or the arguments of enquire.get_mset

limVars == <<first, maxitems, check_at_least, get_matches, doccount, mset>>

VARIABLES
    \* ---- concurrent searches (server.py, search.py) ----
    matching,    \* documents of the index that match the query
    others,      \* documents of the index that do not
    squery,      \* client -> the command sent: [cmd, first, maxitems]
    spc,         \* client -> "idle", "iterating", "done"
    msize,       \* client -> matches.size() of its mset
    produced,    \* client -> match rows sent
    withdata     \* client -> match rows sent that have a data field

searchVars == <<matching, others, squery, spc, msize, produced, withdata>>

VARIABLES
    \* ---- the session of one connection (server.py) ----
    active_endpoints,  \* self.active_endpoints: None or a tuple of endpoints
    session_open,      \* the connection is still served
    replies,           \* status lines the last command sent, in order
    lastcmd,           \* observer: the last command received
    failed,            \* observer: the last command's open raised
    before,            \* observer: active_endpoints before the last command
    nsession           \* observer: commands received so far

sessionVars == <<active_endpoints, session_open, replies, lastcmd, failed,
                 before, nsession>>

VARIABLES
    \* ---- shutdown (base.py, worker.py, worker2.py) ----
    shImpl,      \* the server class: "CommandServer" or "XapianDispatcher"
    shClosed,    \* StreamServer.closed: the listener has been closed
    shClient,    \* connection -> "new", "open" (in self.clients), "ended"
    shIdle,      \* connection -> now - client.activity, in seconds
    shFlag,      \* connection -> client.closed
    shSignals,   \* SIGTERM / SIGINT delivered so far
    shMain,      \* xapiand_run: "serving", "waiting", "done", "raised"
    shLast,      \* observer: the last close(): what it returned and the
                 \*           clients that remained
    shEnd        \* observer: connection -> how it ended: who closed it,
                 \*           after how many signals, at which idle time

shutVars == <<shImpl, shClosed, shClient, shIdle, shFlag, shSignals, shMain,
              shLast, shEnd>>

VARIABLES
    \* ---- the named sub-queues of one endpoint (server.py) ----
    data_dir,    \* `data`, the data directory of the server
    named,       \* the QUEUES dict of get_queue: name -> commands waiting
    consumed,    \* observer: the commands the endpoint's writer has taken
    issued,      \* observer: the write commands the connection issued,
                 \*           each of them answered >> OK
    server_stopped,  \* STOPPED of server.py (line 45), as a flag
    reached      \* observer: the write commands put on a queue

namesVars == <<data_dir, named, consumed, issued, server_stopped, reached>>

VARIABLES
    \* ---- reads after writes (server.py, core.py) ----
    rdUnused,    \* pool_queue.unused of the reader key: idle handles
    rdStamp,     \* handle -> number of the last write or REOPEN command
                 \*           received before its last open or reopen
    rdNow,       \* write and REOPEN commands received so far
    rdNh,        \* reader handles opened so far
    rdConn       \* connection -> [pc, h, _do_reopen, mark, then]: mark
                 \*   (observer) is rdNow at its last write or REOPEN

readersVars == <<rdUnused, rdStamp, rdNow, rdNh, rdConn>>

vars == <<poolVars, commitVars, writerVars, initVars, connVars, fqVars,
          runVars, docVars, limVars, searchVars, sessionVars, shutVars,
          namesVars, readersVars>>

notPool == <<commitVars, writerVars, initVars, connVars, fqVars, runVars, docVars,
    limVars, searchVars, sessionVars,
    shutVars, namesVars, readersVars>>
notCommit == <<poolVars, writerVars, initVars, connVars, fqVars, runVars, docVars,
    limVars, searchVars, sessionVars,
    shutVars, namesVars, readersVars>>
notWriter == <<poolVars, commitVars, initVars, connVars, fqVars, runVars, docVars,
    limVars, searchVars, sessionVars,
    shutVars, namesVars, readersVars>>
notInit == <<poolVars, commitVars, writerVars, connVars, fqVars, runVars, docVars,
    limVars, searchVars, sessionVars,
    shutVars, namesVars, readersVars>>
notConn == <<poolVars, commitVars, writerVars, initVars, fqVars, runVars, docVars,
    limVars, searchVars, sessionVars,
    shutVars, namesVars, readersVars>>
notFQ == <<poolVars, commitVars, writerVars, initVars, connVars, runVars, docVars,
    limVars, searchVars, sessionVars,
    shutVars, namesVars, readersVars>>
notRun == <<poolVars, commitVars, writerVars, initVars, connVars, fqVars, docVars,
    limVars, searchVars, sessionVars,
    shutVars, namesVars, readersVars>>
notDoc == <<poolVars, commitVars, writerVars, initVars, connVars, fqVars,
            runVars, limVars, searchVars, sessionVars,
    shutVars, namesVars, readersVars>>
notLim == <<poolVars, commitVars, writerVars, initVars, connVars, fqVars,
            runVars, docVars, searchVars, sessionVars,
    shutVars, namesVars, readersVars>>
notSearch == <<poolVars, commitVars, writerVars, initVars, connVars, fqVars,
               runVars, docVars, limVars, sessionVars,
    shutVars, namesVars, readersVars>>
notReaders == <<poolVars, commitVars, writerVars, initVars, connVars, fqVars,
               runVars, docVars, limVars, searchVars, sessionVars, shutVars,
               namesVars>>
notNames == <<poolVars, commitVars, writerVars, initVars, connVars, fqVars,
             runVars, docVars, limVars, searchVars, sessionVars, shutVars, readersVars>>
notShut == <<poolVars, commitVars, writerVars, initVars, connVars, fqVars,
            runVars, docVars, limVars, searchVars, sessionVars, namesVars, readersVars>>
notSession == <<poolVars, commitVars, writerVars, initVars, connVars, fqVars,
                runVars, docVars, limVars, searchVars,
    shutVars, namesVars, readersVars>>

(***************************************************************************)
(*                         THE DATABASE POOL                               *)
(***************************************************************************)
Acquirers == 1..NumAcquirers
\* Handles 1..HandleBase are those of the initial state.
HandleBase == PoolSize - 1 + NumAcquirers
Handles == 1..(HandleBase + MaxAcquisitions)
QIds == 1..MaxQueues
NoQ == 0
NoDb == 0
NoKey == <<>>

\* Pool keys (writable, endpoints): one writable endpoint and its reader view.
WKey == <<TRUE, "E">>
RKey == <<FALSE, "E">>
Keys == {WKey, RKey}
Writable(k) == k[1]

IdleFrame == [pc |-> "idle", key |-> NoKey, q |-> NoQ, database |-> NoDb,
              reopen |-> FALSE]

Active(p) == acq[p].pc # "idle"

\* Queue objects something still refers to: the dict, a running acquisition,
\* or the sweep's list of evicted objects.
LiveQueues == ({pool[k] : k \in Keys} \cup {acq[p].q : p \in Acquirers} \cup cleanups)
                \ {NoQ}

InUnused(q) == {unused[q][i] : i \in 1..Len(unused[q])}

\* Handles something still refers to (an unreferenced Database is destroyed
\* by the interpreter, which closes the engine database).
LiveHandles == ((UNION {used[q] \cup InUnused(q) : q \in LiveQueues})
                 \cup {acq[p].database : p \in Acquirers}) \ {NoDb}

\* DatabasesPool.__init__ and the first acquisitions: n idle reader handles.
PoolFresh(n) ==
    /\ pool = [k \in Keys |-> IF k = RKey /\ n > 0 THEN 1 ELSE NoQ]
    /\ unused = [q \in QIds |-> IF q = 1 THEN [i \in 1..n |-> i] ELSE <<>>]
    /\ used = [q \in QIds |-> IF q = 1 /\ n > 0 THEN {n + p : p \in Acquirers} ELSE {}]
    /\ acq = [p \in Acquirers |->
                IF n > 0 THEN [pc |-> "body", key |-> RKey, q |-> 1,
                               database |-> n + p, reopen |-> FALSE]
                ELSE IdleFrame]
    /\ nh = HandleBase
    /\ nq = IF n > 0 THEN 1 ELSE 0
    /\ nacq = 0
    /\ qtime = [q \in QIds |-> 0]
    /\ cleaned = [q \in QIds |-> FALSE]
    /\ ptime = 0
    /\ closed = {}
    /\ whandles = {}
    /\ cleanups = {}


(***************************************************************************)
(*             THE WRITERS AND THE COMMIT POLICY: data                     *)
(***************************************************************************)
Writers == 1..NumWriters
None == <<>>

Min(a, b) == IF a <= b THEN a ELSE b
Max(a, b) == IF a >= b THEN a ELSE b

\* int(round(commit_timeout * 0.3))  (worker.py:218), for t >= 0
Round03(t) == (3 * t + 5) \div 10

\* timeout = min(max(int(round(commit_timeout * 0.3)), 1), 3)  (worker.py:218)
PollSeconds == Min(Max(Round03(CommitTimeout), 1), 3)

\* timeouts = Obj(...)  (worker.py:225-230), in ticks
timeouts == [timeout |-> PollSeconds * TicksPerSecond,
             commit  |-> CommitTimeout * TicksPerSecond,
             delayed |-> CommitTimeout * 3 * TicksPerSecond,
             maximum |-> CommitTimeout * 9 * TicksPerSecond]

\* Ages are followed until one poll after the hard ceiling (an age of
\* AgeCap stands for AgeCap or more).
AgeCap == timeouts.maximum + timeouts.timeout

\* worker.py:224, 232-234: the semaphore is full, writers are at the top of
\* their loop with an empty to_commit.
CommitFresh ==
    /\ STOPPED = FALSE
    /\ commit_lock = CommitSlots
    /\ wpc = [w \in Writers |-> "top"]
    /\ to_commit = [w \in Writers |-> None]
    /\ waited = [w \in Writers |-> 0]
    /\ locked = [w \in Writers |-> FALSE]
    /\ tq = [w \in Writers |-> 0]
    /\ nwrites = 0

(***************************************************************************)
(*        THE CENTRAL QUEUE, THE MANAGER AND THE WRITERS: data             *)
(*                                                                         *)
(* A Python string is a sequence of one-character strings, so that         *)
(* iterating over a string and iterating over a tuple of strings differ    *)
(* as they do in the code.                                                 *)
(***************************************************************************)
Scheme == <<"f", "i", "l", "e", ":", "/", "/">>

\* The endpoints clients name: "a", "ab" and "f".
Names == {<<"a">>, <<"a", "b">>, <<"f">>}

\* urlparse finds the scheme (utils.py:33, 36-40).
HasScheme(s) == Len(s) >= Len(Scheme) /\ SubSeq(s, 1, Len(Scheme)) = Scheme

\* normalize_path (utils.py:21-29): a trailing slash is dropped.
normalize_path(s) == IF s # <<>> /\ s[Len(s)] = "/" THEN SubSeq(s, 1, Len(s) - 1) ELSE s

\* build_url(*parse_url(url))  (utils.py:32-62) for a local index: a path
\* without scheme gets the scheme file, a file URL is left as it is.
Canon(s) == IF HasScheme(s) THEN s ELSE Scheme \o normalize_path(s)

Dbs == {Canon(n) : n \in Names}

\* The two shapes of the `endpoints` field of an envelope.
Str(s) == [kind |-> "str", v |-> s]
Tuple(t) == [kind |-> "tuple", v |-> t]

\* for _db in endpoints  (worker.py:159): the items the loop visits.
Items(x) == IF x.kind = "str" THEN [i \in 1..Len(x.v) |-> <<x.v[i]>>] ELSE x.v

\* worker.py:232-234: empty queues, no writer.
WriterFresh ==
    /\ main_queue = <<>>
    /\ QUEUES = [d \in Dbs |-> <<>>]
    /\ databases = {}
    /\ enqueued = [d \in Dbs |-> <<>>]
    /\ applied = [d \in Dbs |-> <<>>]
    /\ nmsgs = 0


(***************************************************************************)
(*           CONNECTIONS AND THE LIFE OF A WRITER: data                    *)
(***************************************************************************)
Conns == 1..NumConns

\* XapiandReceiver.__init__ (server.py:77-85); no writer, empty queues.
InitFresh ==
    /\ active = [c \in Conns |-> FALSE]
    /\ do_reopen = [c \in Conns |-> FALSE]
    /\ do_init = [c \in Conns |-> FALSE]
    /\ inited = [c \in Conns |-> FALSE]
    /\ MAIN_QUEUE = 0
    /\ inbox = 0
    /\ alive = FALSE
    /\ idle = FALSE
    /\ nindex = 0


(***************************************************************************)
(*           ONE CONNECTION AND ITS HANDLERS: data                         *)
(***************************************************************************)
Cmds == 1..MaxCmds

\* ClientReceiver.__init__: no command yet (base.py:37, getattr(..., 0)).
ConnFresh ==
    /\ cmd_id = 0
    /\ hpc = [k \in Cmds |-> "none"]
    /\ left = [k \in Cmds |-> 0]
    /\ wire = {}
    /\ client_cmd_id = 0

(***************************************************************************)
(*           RUNS OF THE SERVER WITH A PERSISTENT QUEUE: data              *)
(***************************************************************************)
Endpoints == {"e1", "e2"}

\* Xapian-Writers.db does not exist
NoFile == [exists |-> FALSE, lines |-> {}]

\* Xapian-Writers.db with one line per endpoint of S
File(S) == [exists |-> TRUE, lines |-> S]

\* a data directory before the first start: queues empty, the roster as
\* given (absent, or a file the operator has put there)
RunFresh(file) ==
    /\ server = "down"
    /\ writers_file = file
    /\ subq = [e \in Endpoints |-> 0]
    /\ running = {}
    /\ nstarts = 0

(***************************************************************************)
(*               THE DOCUMENTS OF ONE ENDPOINT: data                       *)
(*                                                                         *)
(* A field name is a sequence of characters.  A document is a record       *)
(* [docid, terms, values, data, oid]: values is a set of <<slot, value>>   *)
(* pairs, oid (observer) the id the document was indexed with.             *)
(***************************************************************************)
Letters == {"i", "d", "I", "D"}

lower(ch) == CASE ch = "I" -> "i" [] ch = "D" -> "d" [] OTHER -> ch

upper(ch) == CASE ch = "i" -> "I" [] ch = "d" -> "D" [] OTHER -> ch

ord(ch) == CASE ch = "i" -> 105 [] ch = "d" -> 100 [] ch = "I" -> 73
             [] ch = "D" -> 68 [] OTHER -> 0

Lowered(name) == [k \in 1..Len(name) |-> lower(name[k])]

Uppered(name) == [k \in 1..Len(name) |-> upper(name[k])]

\* int(md5(name).hexdigest(), 16) & 0xffffffff, here a positional hash
RECURSIVE md5(_)
md5(name) ==
    IF name = <<>> THEN 7
    ELSE (31 * md5(SubSeq(name, 1, Len(name) - 1)) + ord(name[Len(name)]))
         % SlotSpace

\* KEY_RE.match(name)
KeyMatch(name) == name # <<>> /\ name[1] \in Letters

\* core.get_slot: a name with an upper-case letter is hashed in upper case,
\* an all-lower-case name as it is
get_slot(name) ==
    IF ~KeyMatch(name) THEN -1
    ELSE LET _name == IF Lowered(name) # name THEN Uppered(name)
                      ELSE Lowered(name)
             slot  == md5(_name)
         IN  IF slot = SlotSpace - 1 THEN SlotSpace - 2 ELSE slot

\* the slot Database.index stores the id in: get_slot('ID')
IndexIdSlot == get_slot(<<"I", "D">>)

\* the slot Search.get_results reads the id from: get_slot('id')
SearchIdSlot == get_slot(<<"i", "d">>)

DocIdStrings == {"a", "B"}
DocData == {"v1", "v2"}
UpperFirst == {"B"}

\* core.prefixed(term, DOCUMENT_ID_TERM_PREFIX)
prefixed(term, prefix) ==
    IF term \notin UpperFirst THEN <<prefix, "", term>>
    ELSE <<prefix, ":", term>>

DocCmds == {"INDEX", "CINDEX", "DELETE", "CDELETE", "COMMIT"}

DocFresh ==
    /\ dq = <<>>
    /\ work = {}
    /\ disk = {}
    /\ lastdocid = 0
    /\ timer = FALSE
    /\ wlife = "running"
    /\ lastop = "none"
    /\ indexed = [x \in DocIdStrings |-> <<>>]
    /\ deleted = {}
    /\ rows = {}
    /\ notfound = {}
    /\ faults = 0
    /\ attempts = 0
    /\ ndoc = 0

(***************************************************************************)
(*               THE WINDOW OF A SEARCH: data                              *)
(***************************************************************************)
Requested == {-1, 0, 1, 2, MAX_DOCS - 1, MAX_DOCS, MAX_DOCS + 1}
Doccounts == {0, 1, 2, MAX_DOCS - 1, MAX_DOCS, MAX_DOCS + 1}

Min3(a, b, c) == Min(Min(a, b), c)

\* Search.__init__ with the parsed query, before get_results
LimFresh(f, m, c, g, d) ==
    /\ first = f
    /\ maxitems = m
    /\ check_at_least = c
    /\ get_matches = g
    /\ doccount = d
    /\ mset = None

(***************************************************************************)
(*               CONCURRENT SEARCHES: data                                 *)
(***************************************************************************)
Clients == 1..NumClients
Offsets == {0, 1}
Limits == {0, 1, 2, MAX_DOCS, MAX_DOCS + 1}
Matchings == {0, 3, MAX_DOCS + 2}
SearchCmds == {"SEARCH", "FIND"}

NoQuery == [cmd |-> "", first |-> 0, maxitems |-> 0]

\* an index with n documents that match and k that do not; no search yet
SearchFresh(n, k) ==
    /\ matching = n
    /\ others = k
    /\ squery = [c \in Clients |-> NoQuery]
    /\ spc = [c \in Clients |-> "idle"]
    /\ msize = [c \in Clients |-> 0]
    /\ produced = [c \in Clients |-> 0]
    /\ withdata = [c \in Clients |-> 0]

(***************************************************************************)
(*               THE SESSION OF ONE CONNECTION: data                       *)
(***************************************************************************)
\* the argument of CREATE / OPEN / USING, split into endpoints
Lines == {<<>>, <<"e1">>, <<"e2">>, <<"e1", "e2">>}

\* XapiandReceiver.__init__: self.active_endpoints = None
SessionFresh ==
    /\ active_endpoints = None
    /\ session_open = TRUE
    /\ replies = <<>>
    /\ lastcmd = ""
    /\ failed = FALSE
    /\ before = None
    /\ nsession = 0

(***************************************************************************)
(*               SHUTDOWN: data                                            *)
(***************************************************************************)
ShutClients == 1..NumShutClients

ServerClasses == {"CommandServer", "XapianDispatcher"}

NotEnded == [by |-> "", signals |-> 0, idle |-> 0]

NotCalled == [ret |-> "", left |-> 0]

\* ClientReceiver.__init__ (worker2.py): weak_client = False, never set again
weak_client(c) == FALSE

\* the server is serving, nobody has connected
ShutFresh(impl) ==
    /\ shImpl = impl
    /\ shClosed = FALSE
    /\ shClient = [c \in ShutClients |-> "new"]
    /\ shIdle = [c \in ShutClients |-> 0]
    /\ shFlag = [c \in ShutClients |-> FALSE]
    /\ shSignals = 0
    /\ shMain = "serving"
    /\ shLast = NotCalled
    /\ shEnd = [c \in ShutClients |-> NotEnded]

(***************************************************************************)
(*               THE NAMES OF THE SUB-QUEUES: data                         *)
(*                                                                         *)
(* Paths are sequences of characters.  One endpoint is followed; X is the  *)
(* name _database_name gives its writer.                                   *)
(***************************************************************************)
DataDirs == {<<>>, <<".">>, <<"d", "/">>}

WriterName == <<"X">>

\* os.path.join(a, b) for a relative b
join(a, b) ==
    IF a = <<>> THEN b
    ELSE IF a[Len(a)] = "/" THEN a \o b
    ELSE a \o <<"/">> \o b

QueueNames == {WriterName} \cup {join(d, WriterName) : d \in DataDirs}

NamesFresh(d) ==
    /\ data_dir = d
    /\ named = [n \in QueueNames |-> <<>>]
    /\ consumed = <<>>
    /\ issued = <<>>
    /\ server_stopped = FALSE
    /\ reached = <<>>

(***************************************************************************)
(*               READS AFTER WRITES: data                                  *)
(*                                                                         *)
(* The connections have the same active endpoints, so their reads share    *)
(* one key of the pool.  A connection handles one command at a time.       *)
(***************************************************************************)
Readers == 1..NumReaders

ReaderHandles == 1..MaxReaderHandles

\* XapiandReceiver.__init__ (server.py:77-85) after USING; an empty pool.
ReadersFresh ==
    /\ rdUnused = <<>>
    /\ rdStamp = [h \in ReaderHandles |-> 0]
    /\ rdNow = 0
    /\ rdNh = 0
    /\ rdConn = [c \in Readers |->
                   [pc |-> "idle", h |-> NoDb, _do_reopen |-> FALSE, mark |-> 0,
                    then |-> "idle"]]

(***************************************************************************)
(*                 THE FILE-BACKED QUEUE: data                             *)
(*                                                                         *)
(* Offsets are counted in records and the log stays in its first bucket.   *)
(* The values of an earlier run are 1..n, the values put in this run       *)
(* follow.  A serialized item is an odd number; damage on disk flips its   *)
(* low bit, which the checksum detects as CRC-32 detects a one-bit error.  *)
(***************************************************************************)
\* zlib.compress(pickle.dumps(item)) (persistent.py:226)
Dumps(item) == 2 * item + 1

\* what a damaged byte string stands for
Garbage == -1

\* pickle.loads(zlib.decompress(fvalue)) (persistent.py:218)
Loads(bytes) == IF bytes % 2 = 1 THEN (bytes - 1) \div 2 ELSE Garbage

\* zlib.crc32
crc32(bytes) == (5 * bytes) % 11

OldRecord(i) == [seq |-> i, crc32 |-> crc32(Dumps(i)), value |-> Dumps(i)]

\* value = fvalue = None (persistent.py:147); the values put are 1, 2, ...
NoValue == 0

\* FileQueue.__init__ over a log that holds n undelivered records
FQFresh(n) ==
    /\ bucket = [i \in 1..n |-> OldRecord(i)]
    /\ fpos = 0
    /\ spos = None
    /\ items = <<>>
    /\ seq = 0
    /\ QSTOPPED = FALSE
    /\ clock = MaxOld + 1
    /\ gpc = "idle"
    /\ fvalue = NoValue
    /\ putlog = [i \in 1..n |-> i]
    /\ returned = <<>>
    /\ ngets = 0


\* xapian.WritableDatabase takes the index lock: a second writable open of
\* the same index raises DatabaseLockError (core.py:191), turned into
\* InvalidIndexError.  A reader open takes no lock.
EngineLockFree(k) ==
    Writable(k) => \A h \in LiveHandles : ~(h \in whandles /\ h \notin closed)

\* Database.close (core.py:464-494): marks the engine database closed.
Close(cl, h) == cl \cup {h}

\* Mutant of HasRoom: an off-by-one in the idle cap.
HasRoom_OffByOne(q) == Len(unused[q]) <= PoolSize

\* len(pool_queue.unused) < 10  (core.py:421)
HasRoom(q) == Len(unused[q]) < PoolSize

\* Mutant of Discard: the handle is left in the used set.
Discard_Forgotten(q, h) == used[q]

\* if database: pool_queue.used.discard(database)  (core.py:419-420)
Discard(q, h) == used[q] \ {h}

\* if not database.database._closed  (core.py:422)
Reusable(cl, h) == h \notin cl

\* The finally block of DatabasesPool.database (core.py:417-426) for a frame
\* holding handle h (NoDb when the open failed) of queue q, the handles in cl
\* being closed; gives the new <<used, unused, closed>>.
ReleaseOf(q, h, cl) ==
    IF h = NoDb THEN <<used[q], unused[q], cl>>
    ELSE IF HasRoom(q)
         THEN IF Reusable(cl, h)
              THEN <<Discard(q, h), Append(unused[q], h), cl>>
              ELSE <<Discard(q, h), unused[q], cl>>
         ELSE <<Discard(q, h), unused[q], Close(cl, h)>>

DoRelease(p, cl) ==
    LET q == acq[p].q
        r == ReleaseOf(q, acq[p].database, cl)
    IN  /\ used' = [used EXCEPT ![q] = r[1]]
        /\ unused' = [unused EXCEPT ![q] = r[2]]
        /\ closed' = r[3]
        /\ qtime' = [qtime EXCEPT ![q] = 0]
        /\ acq' = [acq EXCEPT ![p] = IdleFrame]

\* core.py:396-406: under the pool lock, find or create the queue of the key
\* and pop an idle handle from it.
Lookup(p, k, ro) ==
    /\ acq[p].pc = "idle"
    /\ nacq < MaxAcquisitions
    /\ nacq' = nacq + 1
    /\ pool[k] = NoQ => nq < MaxQueues
    /\ LET q == IF pool[k] # NoQ THEN pool[k] ELSE nq + 1
       IN  /\ pool' = [pool EXCEPT ![k] = q]
           /\ nq' = IF pool[k] # NoQ THEN nq ELSE nq + 1
           /\ qtime' = [qtime EXCEPT ![q] = 0]
           /\ IF Len(unused[q]) > 0
              THEN LET h == unused[q][Len(unused[q])]
                   IN  /\ unused' = [unused EXCEPT ![q] = SubSeq(@, 1, Len(@) - 1)]
                       /\ used' = [used EXCEPT ![q] = @ \cup {h}]
                       /\ acq' = [acq EXCEPT ![p] =
                                    [pc |-> IF ro THEN "reopen" ELSE "body", key |-> k,
                                     q |-> q, database |-> h, reopen |-> ro]]
              ELSE /\ UNCHANGED <<unused, used>>
                   /\ acq' = [acq EXCEPT ![p] =
                                [pc |-> "open", key |-> k, q |-> q, database |-> NoDb,
                                 reopen |-> ro]]
    /\ UNCHANGED notPool
    /\ UNCHANGED <<cleaned, ptime, closed, whandles, nh, cleanups>>

\* core.py:409-411: Database(endpoints, writable, create) succeeds.
Open(p) ==
    /\ acq[p].pc = "open"
    /\ EngineLockFree(acq[p].key)
    /\ nh < HandleBase + MaxAcquisitions
    /\ LET h == nh + 1
       IN  /\ nh' = h
           /\ whandles' = IF Writable(acq[p].key) THEN whandles \cup {h} ELSE whandles
           /\ used' = [used EXCEPT ![acq[p].q] = @ \cup {h}]
           /\ acq' = [acq EXCEPT ![p] = [@ EXCEPT !.database = h,
                         !.pc = IF acq[p].reopen THEN "reopen" ELSE "body"]]
    /\ UNCHANGED notPool
    /\ UNCHANGED <<pool, unused, cleaned, qtime, ptime, closed, nq, nacq, cleanups>>

\* core.py:410 raises InvalidIndexError (the index cannot be opened or
\* locked); the finally block runs with database = None.
OpenFail(p) ==
    /\ acq[p].pc = "open"
    /\ DoRelease(p, closed)
    /\ UNCHANGED notPool
    /\ UNCHANGED <<pool, cleaned, ptime, whandles, nh, nq, nacq, cleanups>>

\* core.py:412-413, Database.reopen (core.py:496-511) returns: either the
\* engine reopen worked, or the handle was closed and fully opened again.
ReopenOk(p) ==
    /\ acq[p].pc = "reopen"
    /\ acq' = [acq EXCEPT ![p] = [@ EXCEPT !.pc = "body"]]
    /\ UNCHANGED notPool
    /\ UNCHANGED <<pool, unused, used, cleaned, qtime, ptime, closed, whandles, nh, nq,
                   nacq, cleanups>>

\* Database.reopen raises: after self.close() the full open failed
\* (wasClosed), or the engine raised an error that reopen does not handle.
\* The finally block runs with the handle.
ReopenFail(p, wasClosed) ==
    /\ acq[p].pc = "reopen"
    /\ DoRelease(p, IF wasClosed THEN Close(closed, acq[p].database) ELSE closed)
    /\ UNCHANGED notPool
    /\ UNCHANGED <<pool, cleaned, ptime, whandles, nh, nq, nacq, cleanups>>

\* The body of the with block closes the handle: database.close()
\* (worker.py:175), or a facade retry whose reopen closed it (core.py:505).
BodyClose(p) ==
    /\ acq[p].pc = "body"
    /\ acq[p].database \notin closed
    /\ closed' = Close(closed, acq[p].database)
    /\ UNCHANGED notPool
    /\ UNCHANGED <<pool, unused, used, cleaned, qtime, ptime, whandles, nh, nq, nacq,
                   acq, cleanups>>

\* The body of the with block ends, normally or by an exception: both run
\* the finally block.
BodyExit(p) ==
    /\ acq[p].pc = "body"
    /\ DoRelease(p, closed)
    /\ UNCHANGED notPool
    /\ UNCHANGED <<pool, cleaned, ptime, whandles, nh, nq, nacq, cleanups>>

\* Wall time passes: a little, or more than DATABASE_MAX_LIFE.
Older(a, much) == IF much THEN 2 ELSE IF a = 0 THEN 1 ELSE a

PassTime(much) ==
    /\ qtime' = [q \in QIds |-> IF q <= nq THEN Older(qtime[q], much) ELSE qtime[q]]
    /\ ptime' = IF much THEN 2 ELSE ptime
    /\ <<qtime', ptime'>> # <<qtime, ptime>>
    /\ UNCHANGED notPool
    /\ UNCHANGED <<pool, unused, used, cleaned, closed, whandles, nh, nq, nacq, acq, cleanups>>

\* now - obj.time > timeout, for timeout 0 (shutdown) or DATABASE_MAX_LIFE.
Expired(age, timeout0) == IF timeout0 THEN age \in {1, 2} ELSE age = 2

\* Mutant of Evictable: the `used` set is not looked at.
Evictable_IgnoresUsed(q, timeout0) == Expired(qtime[q], timeout0)

\* not obj.used and now - obj.time > timeout  (core.py:336)
Evictable(q, timeout0) == used[q] = {} /\ Expired(qtime[q], timeout0)

\* CleanablePool.cleanup (core.py:324-339), the part under the pool lock.
Sweep(timeout0) ==
    /\ timeout0 \/ ptime = 2
    /\ LET gone == {k \in Keys : pool[k] # NoQ /\ Evictable(pool[k], timeout0)}
       IN  /\ cleanups' = cleanups \cup {pool[k] : k \in gone}
           /\ pool' = [k \in Keys |-> IF k \in gone THEN NoQ ELSE pool[k]]
    /\ ptime' = 0
    /\ <<pool', ptime'>> # <<pool, ptime>>
    /\ UNCHANGED notPool
    /\ UNCHANGED <<unused, used, cleaned, qtime, closed, whandles, nh, nq, nacq, acq>>

\* core.py:341-342 and DatabasesPoolQueue.cleanup (core.py:375-379).
Cleanup(q) ==
    /\ q \in cleanups
    /\ cleanups' = cleanups \ {q}
    /\ IF ~cleaned[q]
       THEN /\ closed' = closed \cup InUnused(q)
            /\ cleaned' = [cleaned EXCEPT ![q] = TRUE]
       ELSE UNCHANGED <<closed, cleaned>>
    /\ UNCHANGED notPool
    /\ UNCHANGED <<pool, unused, used, qtime, ptime, whandles, nh, nq, nacq, acq>>

\* Idle reader handles at the start: none (a fresh server, every acquirer
\* idle), or PoolSize - 1 of them with every acquirer inside the body of a
\* reader acquisition (PoolSize - 1 + NumAcquirers concurrent readers, all
\* but NumAcquirers of them done).
InitIdle == {0, PoolSize - 1}

InitPool ==
    /\ \E n \in InitIdle : PoolFresh(n)
    /\ CommitFresh
    /\ WriterFresh
    /\ InitFresh
    /\ ConnFresh
    /\ FQFresh(0)
    /\ RunFresh(NoFile)
    /\ DocFresh
    /\ LimFresh(0, MAX_DOCS, 0, TRUE, 0)
    /\ SearchFresh(0, 0)
    /\ SessionFresh
    /\ ShutFresh("CommandServer")
    /\ NamesFresh(<<".">>)
    /\ ReadersFresh

NextPool ==
    \/ \E p \in Acquirers, k \in Keys, ro \in BOOLEAN : Lookup(p, k, ro)
    \/ \E p \in Acquirers : Open(p)
    \/ \E p \in Acquirers : OpenFail(p)
    \/ \E p \in Acquirers : ReopenOk(p)
    \/ \E p \in Acquirers, c \in BOOLEAN : ReopenFail(p, c)
    \/ \E p \in Acquirers : BodyClose(p)
    \/ \E p \in Acquirers : BodyExit(p)
    \/ \E much \in BOOLEAN : PassTime(much)
    \/ \E t0 \in BOOLEAN : Sweep(t0)
    \/ \E q \in QIds : Cleanup(q)

SpecPool == InitPool /\ [][NextPool]_vars

(***************************************************************************)
(*             THE WRITERS AND THE COMMIT POLICY: actions                  *)
(*                                                                         *)
(* Time passes (Tick) only while every writer is blocked: in queue.get, in *)
(* a running engine commit, in a blocking acquire, or ended.  The steps    *)
(* a writer takes between two blocking calls take no time.                 *)
(***************************************************************************)
\* Mutant of ForcedByMaximum: the hard ceiling is never applied.
ForcedByMaximum_Never(e) == FALSE

\* do_commit = dt0 <= expires_max, that is now - dt0 >= maximum
\* (worker.py:97, 102)
ForcedByMaximum(e) == e[1] >= timeouts.maximum

\* dt1 <= expires_delayed or dt2 <= expires  (worker.py:95-96, 106)
Due(e) == e[2] >= timeouts.delayed \/ e[3] >= timeouts.commit

Committing(w) == wpc[w] \in {"commit", "fcommit"}

\* while not STOPPED: _database_commit(..., force=False)  (worker.py:140-141,
\* 89-109): the pass decides, takes a permit where the code takes one, and
\* either starts the engine commit or goes on to queue.get.
CommitPass(w) ==
    /\ wpc[w] = "top"
    /\ ~STOPPED
    /\ LET e == to_commit[w]
       IN  IF e = None
           THEN /\ wpc' = [wpc EXCEPT ![w] = "get"]
                /\ UNCHANGED <<commit_lock, locked>>
           ELSE IF ForcedByMaximum(e)
           THEN /\ wpc' = [wpc EXCEPT ![w] = "commit"]
                /\ locked' = [locked EXCEPT ![w] = FALSE]
                /\ UNCHANGED commit_lock
           ELSE IF Due(e) /\ commit_lock > 0
           THEN /\ wpc' = [wpc EXCEPT ![w] = "commit"]
                /\ locked' = [locked EXCEPT ![w] = TRUE]
                /\ commit_lock' = commit_lock - 1
           ELSE /\ wpc' = [wpc EXCEPT ![w] = "get"]
                /\ UNCHANGED <<commit_lock, locked>>
    /\ waited' = [waited EXCEPT ![w] = 0]
    /\ UNCHANGED <<STOPPED, to_commit, tq, nwrites>>
    /\ UNCHANGED notCommit

\* The loop test fails (worker.py:140): the writer leaves the loop.
LoopExit(w) ==
    /\ wpc[w] = "top"
    /\ STOPPED
    /\ wpc' = [wpc EXCEPT ![w] = "final"]
    /\ UNCHANGED <<STOPPED, commit_lock, to_commit, waited, locked, tq, nwrites>>
    /\ UNCHANGED notCommit

\* _database_commit(..., force=True)  (worker.py:174, 100): with an entry the
\* pass waits for a permit; without one it returns and the writer ends.
ForcedPass(w) ==
    /\ wpc[w] = "final"
    /\ IF to_commit[w] = None
       THEN /\ wpc' = [wpc EXCEPT ![w] = "ended"]
            /\ UNCHANGED <<commit_lock, locked>>
       ELSE /\ commit_lock > 0
            /\ commit_lock' = commit_lock - 1
            /\ locked' = [locked EXCEPT ![w] = TRUE]
            /\ wpc' = [wpc EXCEPT ![w] = "fcommit"]
    /\ UNCHANGED <<STOPPED, to_commit, waited, tq, nwrites>>
    /\ UNCHANGED notCommit

\* Mutant of Release: the permit is given back whether or not it was taken.
Release_Unconditional(w) == commit_lock + 1

\* if locked: commit_lock.release()  (worker.py:114-116)
Release(w) == IF locked[w] THEN commit_lock + 1 ELSE commit_lock

\* The engine commit returns: del to_commit[db], release  (worker.py:112-116).
CommitDone(w) ==
    /\ Committing(w)
    /\ to_commit' = [to_commit EXCEPT ![w] = None]
    /\ commit_lock' = Release(w)
    /\ locked' = [locked EXCEPT ![w] = FALSE]
    /\ wpc' = [wpc EXCEPT ![w] = IF wpc[w] = "commit" THEN "get" ELSE "ended"]
    /\ UNCHANGED <<STOPPED, waited, tq, nwrites>>
    /\ UNCHANGED notCommit

\* The engine commit raises (core.py:643): the finally releases, the
\* exception ends the writer.
CommitFail(w) ==
    /\ Committing(w)
    /\ commit_lock' = Release(w)
    /\ locked' = [locked EXCEPT ![w] = FALSE]
    /\ wpc' = [wpc EXCEPT ![w] = "dead"]
    /\ UNCHANGED <<STOPPED, to_commit, waited, tq, nwrites>>
    /\ UNCHANGED notCommit

\* Mutant of Touch: every write restarts the first timestamp.
Touch_RestartsFirst(e) == IF e = None THEN <<0, 0, 0>> ELSE <<0, e[2], e[3]>>

\* to_commit[db] = (dt0, dt1, now) or (now, now, now)  (worker.py:167-172)
Touch(e) == IF e = None THEN <<0, 0, 0>> ELSE <<e[1], e[2], 0>>

\* queue.get returns an INDEX or DELETE for this writer's endpoint, which is
\* applied (worker.py:145, 159-172).
GetWrite(w) ==
    /\ wpc[w] = "get"
    /\ tq[w] > 0
    /\ tq' = [tq EXCEPT ![w] = @ - 1]
    /\ to_commit' = [to_commit EXCEPT ![w] = Touch(@)]
    /\ wpc' = [wpc EXCEPT ![w] = "top"]
    /\ waited' = [waited EXCEPT ![w] = 0]
    /\ UNCHANGED <<STOPPED, commit_lock, locked, nwrites>>
    /\ UNCHANGED notCommit

\* The command raises (worker.py:81-83): the exception ends the writer.
GetWriteFail(w) ==
    /\ wpc[w] = "get"
    /\ tq[w] > 0
    /\ tq' = [tq EXCEPT ![w] = @ - 1]
    /\ wpc' = [wpc EXCEPT ![w] = "dead"]
    /\ waited' = [waited EXCEPT ![w] = 0]
    /\ UNCHANGED <<STOPPED, commit_lock, to_commit, locked, nwrites>>
    /\ UNCHANGED notCommit

\* queue.get raises Empty after `timeout` (worker.py:146-150), or returns the
\* None of the shutdown wake-up (worker.py:333, 151-152).
GetNothing(w) ==
    /\ wpc[w] = "get"
    /\ tq[w] = 0
    /\ STOPPED \/ waited[w] >= timeouts.timeout
    /\ wpc' = [wpc EXCEPT ![w] = "top"]
    /\ waited' = [waited EXCEPT ![w] = 0]
    /\ UNCHANGED <<STOPPED, commit_lock, to_commit, locked, tq, nwrites>>
    /\ UNCHANGED notCommit

\* A connection puts a write command on the sub-queue of w's endpoint
\* (server.py:525-530, 546-550).
Put(w) ==
    /\ ~STOPPED
    /\ nwrites < MaxWrites
    /\ wpc[w] \notin {"ended", "dead"}
    /\ nwrites' = nwrites + 1
    /\ tq' = [tq EXCEPT ![w] = @ + 1]
    /\ UNCHANGED <<STOPPED, commit_lock, wpc, to_commit, waited, locked>>
    /\ UNCHANGED notCommit

\* STOPPED = time.time() and the wake-up of the writers (worker.py:323-335).
Stop ==
    /\ ~STOPPED
    /\ STOPPED' = TRUE
    /\ UNCHANGED <<commit_lock, wpc, to_commit, waited, locked, tq, nwrites>>
    /\ UNCHANGED notCommit

Blocked(w) ==
    \/ wpc[w] = "get" /\ tq[w] = 0 /\ ~STOPPED /\ waited[w] < timeouts.timeout
    \/ Committing(w)
    \/ wpc[w] = "final" /\ to_commit[w] # None /\ commit_lock = 0
    \/ wpc[w] \in {"ended", "dead"}

Aged(e) == IF e = None THEN None ELSE [i \in 1..3 |-> Min(e[i] + 1, AgeCap)]

\* One tick of wall time.
Tick ==
    /\ \A w \in Writers : Blocked(w)
    /\ \E w \in Writers : wpc[w] \notin {"ended", "dead"}
    /\ to_commit' = [w \in Writers |->
                        IF wpc[w] \in {"ended", "dead"} THEN to_commit[w]
                        ELSE Aged(to_commit[w])]
    /\ waited' = [w \in Writers |-> IF wpc[w] = "get" THEN waited[w] + 1 ELSE waited[w]]
    /\ <<to_commit', waited'>> # <<to_commit, waited>>
    /\ UNCHANGED <<STOPPED, commit_lock, wpc, locked, tq, nwrites>>
    /\ UNCHANGED notCommit

InitCommit ==
    /\ PoolFresh(0)
    /\ CommitFresh
    /\ WriterFresh
    /\ InitFresh
    /\ ConnFresh
    /\ FQFresh(0)
    /\ RunFresh(NoFile)
    /\ DocFresh
    /\ LimFresh(0, MAX_DOCS, 0, TRUE, 0)
    /\ SearchFresh(0, 0)
    /\ SessionFresh
    /\ ShutFresh("CommandServer")
    /\ NamesFresh(<<".">>)
    /\ ReadersFresh

NextCommit ==
    \/ \E w \in Writers : CommitPass(w)
    \/ \E w \in Writers : LoopExit(w)
    \/ \E w \in Writers : ForcedPass(w)
    \/ \E w \in Writers : CommitDone(w)
    \/ \E w \in Writers : CommitFail(w)
    \/ \E w \in Writers : GetWrite(w)
    \/ \E w \in Writers : GetWriteFail(w)
    \/ \E w \in Writers : GetNothing(w)
    \/ \E w \in Writers : Put(w)
    \/ Stop
    \/ Tick

SpecCommit == InitCommit /\ [][NextCommit]_vars

\* A step of writer w's thread.
WriterStep(w) ==
    \/ CommitPass(w)
    \/ LoopExit(w)
    \/ ForcedPass(w)
    \/ CommitDone(w)
    \/ CommitFail(w)
    \/ GetWrite(w)
    \/ GetWriteFail(w)
    \/ GetNothing(w)

\* Every writer runs in a thread of its own (worker.py:258, 276), which
\* goes on whenever it can: queue.get returns after `timeout` at the
\* latest (worker.py:145), an engine commit returns or raises, and a
\* blocking acquire returns once a permit is free.
SpecCommitFair == SpecCommit /\ \A w \in Writers : WF_vars(WriterStep(w))

(***************************************************************************)
(*        THE CENTRAL QUEUE, THE MANAGER AND THE WRITERS: actions          *)
(***************************************************************************)
WriteCmds == {"INDEX", "CINDEX", "DELETE", "CDELETE", "COMMIT"}

Envelope(cmd, eps, id) == [cmd |-> cmd, endpoints |-> eps, args |-> id]

\* A connection sends a command for the endpoints eps to the central queue.
Request(cmd, eps) ==
    /\ nmsgs < MaxMsgs
    /\ nmsgs' = nmsgs + 1
    /\ main_queue' = Append(main_queue, Envelope(cmd, Tuple(eps), nmsgs + 1))
    /\ UNCHANGED <<QUEUES, databases, enqueued, applied>>
    /\ UNCHANGED notWriter

\* tq.put((cmd, db, args))  (worker.py:310): the envelope the manager puts
\* on the sub-queue of db carries db itself, a string, as `endpoints`.
Forwarded(msg, db) == Envelope(msg.cmd, Str(db), msg.args)

RECURSIVE ForwardAll(_, _, _, _)
\* for db in endpoints: start_writer(db); tq.put(...)  (worker.py:306-313),
\* from item i on; qs and en are the sub-queues and the enqueue histories.
ForwardAll(msg, i, qs, en) ==
    IF i > Len(Items(msg.endpoints)) THEN <<qs, en>>
    ELSE LET db == Canon(Items(msg.endpoints)[i])
         IN  IF msg.cmd = "INIT"
             THEN ForwardAll(msg, i + 1, qs, en)
             ELSE ForwardAll(msg, i + 1,
                             [qs EXCEPT ![db] = Append(@, Forwarded(msg, db))],
                             [en EXCEPT ![db] = Append(@, msg.args)])

\* One turn of the manager loop (worker.py:292-313).
Manage ==
    /\ main_queue # <<>>
    /\ LET msg == Head(main_queue)
           r == ForwardAll(msg, 1, QUEUES, enqueued)
       IN  /\ main_queue' = Tail(main_queue)
           /\ databases' = databases \cup
                  {Canon(Items(msg.endpoints)[i]) : i \in 1..Len(Items(msg.endpoints))}
           /\ QUEUES' = r[1]
           /\ enqueued' = r[2]
    /\ UNCHANGED <<applied, nmsgs>>
    /\ UNCHANGED notWriter

\* A connection puts a write command on the sub-queue of db itself
\* (server.py:539-550): the envelope carries the tuple (db,).
PutDirect(cmd, db) ==
    /\ nmsgs < MaxMsgs
    /\ nmsgs' = nmsgs + 1
    /\ QUEUES' = [QUEUES EXCEPT ![db] = Append(@, Envelope(cmd, Tuple(<<db>>), nmsgs + 1))]
    /\ enqueued' = [enqueued EXCEPT ![db] = Append(@, nmsgs + 1)]
    /\ UNCHANGED <<main_queue, databases, applied>>
    /\ UNCHANGED notWriter

RECURSIVE ApplyAll(_, _, _, _)
\* for _db in endpoints: if _db != db: continue; _database_command(...)
\* (worker.py:159-165), from item i on; ap is what was applied so far.
ApplyAll(msg, db, i, ap) ==
    IF i > Len(Items(msg.endpoints)) THEN ap
    ELSE IF Canon(Items(msg.endpoints)[i]) # db
         THEN ApplyAll(msg, db, i + 1, ap)
         ELSE ApplyAll(msg, db, i + 1, Append(ap, msg.args))

\* One turn of the writer loop of db that gets an envelope (worker.py:145-172).
WriterTurn(db) ==
    /\ db \in databases
    /\ QUEUES[db] # <<>>
    /\ QUEUES' = [QUEUES EXCEPT ![db] = Tail(@)]
    /\ applied' = [applied EXCEPT ![db] = ApplyAll(Head(QUEUES[db]), db, 1, @)]
    /\ UNCHANGED <<main_queue, databases, enqueued, nmsgs>>
    /\ UNCHANGED notWriter

InitWriter ==
    /\ PoolFresh(0)
    /\ CommitFresh
    /\ WriterFresh
    /\ InitFresh
    /\ ConnFresh
    /\ FQFresh(0)
    /\ RunFresh(NoFile)
    /\ DocFresh
    /\ LimFresh(0, MAX_DOCS, 0, TRUE, 0)
    /\ SearchFresh(0, 0)
    /\ SessionFresh
    /\ ShutFresh("CommandServer")
    /\ NamesFresh(<<".">>)
    /\ ReadersFresh

NextWriter ==
    \/ \E cmd \in {"INIT", "INDEX", "DELETE"}, n \in Names : Request(cmd, <<n>>)
    \/ Manage
    \/ \E cmd \in {"INDEX", "COMMIT"}, db \in Dbs : PutDirect(cmd, db)
    \/ \E db \in Dbs : WriterTurn(db)

SpecWriter == InitWriter /\ [][NextWriter]_vars

(***************************************************************************)
(*           CONNECTIONS AND THE LIFE OF A WRITER: actions                 *)
(***************************************************************************)
\* USING E / OPEN E / CREATE E succeed (server.py:130-201): _reopen adds the
\* endpoints to _do_init and clears _do_reopen (server.py:95-99).
Using(c) ==
    /\ active' = [active EXCEPT ![c] = TRUE]
    /\ do_reopen' = [do_reopen EXCEPT ![c] = FALSE]
    /\ do_init' = [do_init EXCEPT ![c] = TRUE]
    /\ <<active', do_reopen', do_init'>> # <<active, do_reopen, do_init>>
    /\ UNCHANGED <<inited, MAIN_QUEUE, inbox, alive, idle, nindex>>
    /\ UNCHANGED notInit

\* A read command (SEARCH, COUNT, ...) on a connection with _do_reopen set:
\* dispatch calls _reopen first (server.py:87-99).
Read(c) ==
    /\ active[c]
    /\ do_reopen[c]
    /\ do_reopen' = [do_reopen EXCEPT ![c] = FALSE]
    /\ do_init' = [do_init EXCEPT ![c] = TRUE]
    /\ UNCHANGED <<active, inited, MAIN_QUEUE, inbox, alive, idle, nindex>>
    /\ UNCHANGED notInit

\* XapiandReceiver._init (server.py:316-321): an INIT is sent for the popped
\* endpoints only when they are not in _inited yet.
SendsInit(c) == do_init[c] /\ ~inited[c]

\* INDEX on the active endpoints (server.py:350-367): the write is put on
\* E's sub-queue (server.py:546-550), then _init runs.
Index(c) ==
    /\ active[c]
    /\ nindex < MaxIndex
    /\ nindex' = nindex + 1
    /\ do_reopen' = [do_reopen EXCEPT ![c] = TRUE]
    /\ inbox' = inbox + 1
    /\ MAIN_QUEUE' = IF SendsInit(c) THEN MAIN_QUEUE + 1 ELSE MAIN_QUEUE
    /\ inited' = [inited EXCEPT ![c] = @ \/ do_init[c]]
    /\ do_init' = [do_init EXCEPT ![c] = FALSE]
    /\ UNCHANGED <<active, alive, idle>>
    /\ UNCHANGED notInit

\* The manager takes an INIT and calls start_writer (server.py:760-776,
\* 790-809): a writer is started unless one is alive.
StartWriter ==
    /\ MAIN_QUEUE > 0
    /\ MAIN_QUEUE' = MAIN_QUEUE - 1
    /\ alive' = TRUE
    /\ idle' = IF alive THEN idle ELSE FALSE
    /\ UNCHANGED <<active, do_reopen, do_init, inited, inbox, nindex>>
    /\ UNCHANGED notInit

\* The writer gets a write and applies it: last = now (server.py:577-597).
WriterApply ==
    /\ alive
    /\ inbox > 0
    /\ inbox' = inbox - 1
    /\ idle' = FALSE
    /\ UNCHANGED <<active, do_reopen, do_init, inited, MAIN_QUEUE, alive, nindex>>
    /\ UNCHANGED notInit

\* More than DATABASE_MAX_LIFE passes while the writer waits on its empty
\* sub-queue.
LifePasses ==
    /\ alive
    /\ inbox = 0
    /\ ~idle
    /\ idle' = TRUE
    /\ UNCHANGED <<active, do_reopen, do_init, inited, MAIN_QUEUE, inbox, alive, nindex>>
    /\ UNCHANGED notInit

\* Queue.Empty and now - last > DATABASE_MAX_LIFE: the writer leaves its
\* loop and ends (server.py:578-582, 606-608).
IdleExit ==
    /\ alive
    /\ inbox = 0
    /\ idle
    /\ alive' = FALSE
    /\ idle' = FALSE
    /\ UNCHANGED <<active, do_reopen, do_init, inited, MAIN_QUEUE, inbox, nindex>>
    /\ UNCHANGED notInit

InitInit ==
    /\ PoolFresh(0)
    /\ CommitFresh
    /\ WriterFresh
    /\ InitFresh
    /\ ConnFresh
    /\ FQFresh(0)
    /\ RunFresh(NoFile)
    /\ DocFresh
    /\ LimFresh(0, MAX_DOCS, 0, TRUE, 0)
    /\ SearchFresh(0, 0)
    /\ SessionFresh
    /\ ShutFresh("CommandServer")
    /\ NamesFresh(<<".">>)
    /\ ReadersFresh

NextInit ==
    \/ \E c \in Conns : Using(c)
    \/ \E c \in Conns : Read(c)
    \/ \E c \in Conns : Index(c)
    \/ StartWriter
    \/ WriterApply
    \/ LifePasses
    \/ IdleExit

SpecInit == InitInit /\ [][NextInit]_vars

(***************************************************************************)
(*           ONE CONNECTION AND ITS HANDLERS: actions                      *)
(***************************************************************************)
\* sendLine (base.py:172-177) called by the handler of command k.
Sent(k, kind) == wire \cup {[by |-> k, cur |-> cmd_id, kind |-> kind]}

\* AliveCommand.__nonzero__ (base.py:45-48): False while the command is the
\* connection's latest one; otherwise DeadException is raised.
Alive(k) == k = cmd_id

\* lineReceived of a threaded search command (base.py:231-246):
\* AliveCommand.__init__ increments cmd_id, dispatch spawns the handler
\* (base.py:155-157).  n is the number of matches its query will have.
ReceiveSearch(n) ==
    /\ cmd_id < MaxCmds
    /\ cmd_id' = cmd_id + 1
    /\ hpc' = [hpc EXCEPT ![cmd_id + 1] = "spawned"]
    /\ left' = [left EXCEPT ![cmd_id + 1] = n]
    /\ UNCHANGED wire
    /\ client_cmd_id = cmd_id
    /\ client_cmd_id' = client_cmd_id + 1
    /\ UNCHANGED notConn

\* lineReceived of a command that is not threaded: it runs to its end in
\* the reader and sends its status line (base.py:158-160, 245-246).
ReceiveInline ==
    /\ cmd_id < MaxCmds
    /\ cmd_id' = cmd_id + 1
    /\ hpc' = [hpc EXCEPT ![cmd_id + 1] = "done"]
    /\ wire' = wire \cup {[by |-> cmd_id + 1, cur |-> cmd_id + 1, kind |-> "status"]}
    /\ UNCHANGED left
    /\ client_cmd_id = cmd_id
    /\ client_cmd_id' = client_cmd_id + 1
    /\ UNCHANGED notConn

\* lineReceived of a line whose first word is not a command of the
\* receiver (base.py:238-243): >> ERR: [404] is sent and no AliveCommand is
\* made, so cmd_id stays; the client counted the command
\* (connection.py:291-295, execute_command).
ReceiveUnknown ==
    /\ client_cmd_id = cmd_id
    /\ client_cmd_id < MaxCmds
    /\ client_cmd_id' = client_cmd_id + 1
    /\ UNCHANGED <<cmd_id, hpc, left, wire>>
    /\ UNCHANGED notConn

\* The handler starts; get_results yields the size row, which _search sends
\* (search.py:263-268, server.py:224-225).
SendSize(k) ==
    /\ hpc[k] = "spawned"
    /\ wire' = Sent(k, "size")
    /\ hpc' = [hpc EXCEPT ![k] = "loop"]
    /\ UNCHANGED <<cmd_id, left>>
    /\ UNCHANGED client_cmd_id
    /\ UNCHANGED notConn

\* for match in matches: get_document; self.dead or 'alive'
\* (search.py:282-286).
CheckAlive(k) ==
    /\ hpc[k] = "loop"
    /\ left[k] > 0
    /\ hpc' = [hpc EXCEPT ![k] = IF Alive(k) THEN "row" ELSE "cancelled"]
    /\ UNCHANGED <<cmd_id, left, wire>>
    /\ UNCHANGED client_cmd_id
    /\ UNCHANGED notConn

\* The DeadException reaches the wrapper of the threaded handler, whose
\* `except DeadException` clause calls command.cancelled() (base.py:95-96).
\* cancelled calls self.executed(message=..., logger=...) without the
\* positional `results` (base.py:71-72, 50): TypeError, raised before
\* anything is logged, leaves the wrapper and ends the handler's greenlet.
Cancelled(k) ==
    /\ hpc[k] = "cancelled"
    /\ hpc' = [hpc EXCEPT ![k] = "TypeError"]
    /\ UNCHANGED <<cmd_id, left, wire>>
    /\ UNCHANGED client_cmd_id
    /\ UNCHANGED notConn

\* The row is built and yielded, _search sends it (search.py:287-317,
\* server.py:224-225).
SendRow(k) ==
    /\ hpc[k] = "row"
    /\ wire' = Sent(k, "row")
    /\ left' = [left EXCEPT ![k] = @ - 1]
    /\ hpc' = [hpc EXCEPT ![k] = "loop"]
    /\ UNCHANGED cmd_id
    /\ UNCHANGED client_cmd_id
    /\ UNCHANGED notConn

\* The generator is exhausted: _search sends the DEBUG comment
\* (server.py:230-233).
SendDebug(k) ==
    /\ hpc[k] = "loop"
    /\ left[k] = 0
    /\ wire' = Sent(k, "debug")
    /\ hpc' = [hpc EXCEPT ![k] = "tail"]
    /\ UNCHANGED <<cmd_id, left>>
    /\ UNCHANGED client_cmd_id
    /\ UNCHANGED notConn

\* _search sends the status line (server.py:236).
SendOk(k) ==
    /\ hpc[k] = "tail"
    /\ wire' = Sent(k, "status")
    /\ hpc' = [hpc EXCEPT ![k] = "done"]
    /\ UNCHANGED <<cmd_id, left>>
    /\ UNCHANGED client_cmd_id
    /\ UNCHANGED notConn

InitConn ==
    /\ PoolFresh(0)
    /\ CommitFresh
    /\ WriterFresh
    /\ InitFresh
    /\ ConnFresh
    /\ FQFresh(0)
    /\ RunFresh(NoFile)
    /\ DocFresh
    /\ LimFresh(0, MAX_DOCS, 0, TRUE, 0)
    /\ SearchFresh(0, 0)
    /\ SessionFresh
    /\ ShutFresh("CommandServer")
    /\ NamesFresh(<<".">>)
    /\ ReadersFresh

NextConn ==
    \/ \E n \in 0..MaxMatches : ReceiveSearch(n)
    \/ ReceiveInline
    \/ ReceiveUnknown
    \/ \E k \in Cmds : SendSize(k)
    \/ \E k \in Cmds : CheckAlive(k)
    \/ \E k \in Cmds : Cancelled(k)
    \/ \E k \in Cmds : SendRow(k)
    \/ \E k \in Cmds : SendDebug(k)
    \/ \E k \in Cmds : SendOk(k)

SpecConn == InitConn /\ [][NextConn]_vars

(***************************************************************************)
(*                 THE FILE-BACKED QUEUE: actions                          *)
(***************************************************************************)
\* FileQueue._peek_file from record offset `from`: load records while the
\* one loaded has a seq below self.seq.  The result is the record and the
\* offset after it, or None / FALSE at the end of the file; FALSE also
\* when a loaded record's crc32 is not that of its bytes.
CrcOk_Unchecked(r) == TRUE

CrcOk(r) == r.crc32 = crc32(r.value)

RECURSIVE PeekFrom(_, _)
PeekFrom(from, tries) ==
    IF from >= Len(bucket)
      THEN IF tries > MaxTries THEN [kind |-> "False"] ELSE [kind |-> "None"]
      ELSE IF ~CrcOk(bucket[from + 1])
        THEN [kind |-> "False"]
        ELSE IF bucket[from + 1].seq < seq
          THEN PeekFrom(from + 1, tries + 1)
          ELSE [kind |-> "record", seq |-> bucket[from + 1].seq,
                value |-> bucket[from + 1].value, tell |-> from + 1]

_peek_file(offset) == PeekFrom(offset, 0)

\* FileQueue.get, lines 150-152: the seq at the head of the memory queue
qseq == IF items # <<>> THEN items[1][1] ELSE seq

\* FileQueue.get, line 175: is the record read from the log the one to use
UseFileValue(r) == r.seq < qseq

\* FileQueue.get, lines 156-200, as the values it leaves behind:
\* [seq, fvalue, offset, sync_age, fpos]
FilePart(late) ==
    LET offset0 == IF spos = None THEN fpos ELSE spos[1]
        age0    == IF spos = None THEN 0 ELSE spos[2]
        r       == _peek_file(offset0)
        use     == r.kind = "record" /\ UseFileValue(r)
        offset1 == CASE r.kind = "record" -> r.tell
                     [] r.kind = "False"  -> fpos
                     [] OTHER             -> offset0
        age1    == CASE r.kind = "record" -> age0 + 1
                     [] r.kind = "False"  -> 0
                     [] OTHER             -> age0
        sync    == age1 >= sync_age \/ (age1 # 0 /\ late) \/ QSTOPPED
    IN  [seq |-> IF use THEN r.seq ELSE seq,
         fvalue |-> IF use THEN r.value ELSE NoValue,
         offset |-> offset1,
         sync_age |-> IF sync THEN 0 ELSE age1,
         fpos |-> IF sync THEN offset1 ELSE fpos]

\* FileQueue.get, lines 217-219: the value get returns
Returns(value, fv) ==
    LET v == IF fv # NoValue THEN Loads(fv) ELSE value
    IN  returned' = IF v = NoValue THEN returned ELSE Append(returned, v)

\* FileQueue.put: the item goes to the memory queue and to the log
FQPut ==
    /\ clock < MaxOld + 1 + MaxPuts
    /\ items' = Append(items, <<clock, clock>>)
    /\ bucket' = Append(bucket, [seq |-> clock, crc32 |-> crc32(Dumps(clock)),
                                 value |-> Dumps(clock)])
    /\ putlog' = Append(putlog, clock)
    /\ clock' = clock + 1
    /\ UNCHANGED <<fpos, spos, seq, QSTOPPED, gpc, fvalue, returned, ngets>>
    /\ UNCHANGED notFQ

\* FileQueue.get with an item in the memory queue: the log is read, the item
\* is taken from the memory queue, and a value is returned
GetNow(late) ==
    /\ gpc = "idle"
    /\ ngets < MaxGets
    /\ items # <<>>
    /\ LET f == FilePart(late)
       IN  /\ spos' = <<f.offset, f.sync_age>>
           /\ fpos' = f.fpos
           /\ seq' = items[1][1]
           /\ items' = Tail(items)
           /\ Returns(items[1][2], f.fvalue)
    /\ ngets' = ngets + 1
    /\ UNCHANGED <<bucket, QSTOPPED, clock, gpc, fvalue, putlog>>
    /\ UNCHANGED notFQ

\* FileQueue.get(block=True, timeout) with an empty memory queue: the log is
\* read and the getter waits in Queue.get
GetWait(late) ==
    /\ gpc = "idle"
    /\ ngets < MaxGets
    /\ items = <<>>
    /\ LET f == FilePart(late)
       IN  /\ spos' = <<f.offset, f.sync_age>>
           /\ fpos' = f.fpos
           /\ seq' = f.seq
           /\ fvalue' = f.fvalue
    /\ gpc' = "waiting"
    /\ ngets' = ngets + 1
    /\ UNCHANGED <<bucket, items, QSTOPPED, clock, putlog, returned>>
    /\ UNCHANGED notFQ

\* FileQueue.get(block=False) with an empty memory queue: the log is read
\* and Queue.get raises Empty, which get lets through
GetEmpty(late) ==
    /\ gpc = "idle"
    /\ ngets < MaxGets
    /\ items = <<>>
    /\ LET f == FilePart(late)
       IN  /\ spos' = <<f.offset, f.sync_age>>
           /\ fpos' = f.fpos
           /\ seq' = f.seq
    /\ ngets' = ngets + 1
    /\ UNCHANGED <<bucket, items, QSTOPPED, clock, gpc, fvalue, putlog,
                   returned>>
    /\ UNCHANGED notFQ

\* the waiting getter receives an item that was put meanwhile
GetWake ==
    /\ gpc = "waiting"
    /\ items # <<>>
    /\ seq' = items[1][1]
    /\ items' = Tail(items)
    /\ Returns(items[1][2], fvalue)
    /\ gpc' = "idle"
    /\ fvalue' = NoValue
    /\ UNCHANGED <<bucket, fpos, spos, QSTOPPED, clock, putlog, ngets>>
    /\ UNCHANGED notFQ

\* the waiting getter's timeout passes: Empty is swallowed (line 213-215)
GetTimeout ==
    /\ gpc = "waiting"
    /\ items = <<>>
    /\ Returns(NoValue, fvalue)
    /\ gpc' = "idle"
    /\ fvalue' = NoValue
    /\ UNCHANGED <<bucket, fpos, spos, items, seq, QSTOPPED, clock, putlog,
                   ngets>>
    /\ UNCHANGED notFQ

\* server shutdown: PQueue.STOPPED = now
StopQueue ==
    /\ ~QSTOPPED
    /\ QSTOPPED' = TRUE
    /\ UNCHANGED <<bucket, fpos, spos, items, seq, clock, gpc, fvalue,
                   putlog, returned, ngets>>
    /\ UNCHANGED notFQ

\* the disk damages the bytes of one record of the log
Damaged == {i \in 1..Len(bucket) : bucket[i].crc32 # crc32(bucket[i].value)}

CorruptRecord ==
    /\ Cardinality(Damaged) < MaxCorrupt
    /\ \E i \in 1..Len(bucket) :
         /\ i \notin Damaged
         /\ bucket' = [bucket EXCEPT ![i].value = @ + 1]
    /\ UNCHANGED <<fpos, spos, items, seq, QSTOPPED, clock, gpc, fvalue,
                   putlog, returned, ngets>>
    /\ UNCHANGED notFQ

InitFQ ==
    /\ PoolFresh(0)
    /\ CommitFresh
    /\ WriterFresh
    /\ InitFresh
    /\ ConnFresh
    /\ \E n \in 0..MaxOld : FQFresh(n)
    /\ RunFresh(NoFile)
    /\ DocFresh
    /\ LimFresh(0, MAX_DOCS, 0, TRUE, 0)
    /\ SearchFresh(0, 0)
    /\ SessionFresh
    /\ ShutFresh("CommandServer")
    /\ NamesFresh(<<".">>)
    /\ ReadersFresh

NextFQ ==
    \/ FQPut
    \/ \E late \in BOOLEAN : GetNow(late)
    \/ \E late \in BOOLEAN : GetWait(late)
    \/ \E late \in BOOLEAN : GetEmpty(late)
    \/ GetWake
    \/ GetTimeout
    \/ StopQueue
    \/ CorruptRecord

SpecFQ == InitFQ /\ [][NextFQ]_vars

(***************************************************************************)
(*           RUNS OF THE SERVER WITH A PERSISTENT QUEUE: actions           *)
(***************************************************************************)
\* xapiand_run up to the manager loop: the roster is opened for reading
\* (IOError when it does not exist) and a writer is started per line
Start ==
    /\ server = "down"
    /\ nstarts < MaxStarts
    /\ nstarts' = nstarts + 1
    /\ IF writers_file = NoFile
         THEN server' = "failed" /\ running' = running
         ELSE server' = "up" /\ running' = writers_file.lines
    /\ UNCHANGED <<writers_file, subq>>
    /\ UNCHANGED notRun

\* the manager takes an INIT for e from the central queue: start_writer(e)
ManageInit(e) ==
    /\ server = "up"
    /\ e \notin running
    /\ running' = running \cup {e}
    /\ UNCHANGED <<server, writers_file, subq, nstarts>>
    /\ UNCHANGED notRun

\* a connection that has sent INIT for e puts a write on e's sub-queue
EnqueueWrite(e) ==
    /\ server = "up"
    /\ e \in running
    /\ subq[e] < MaxQueued
    /\ subq' = [subq EXCEPT ![e] = @ + 1]
    /\ UNCHANGED <<server, writers_file, running, nstarts>>
    /\ UNCHANGED notRun

\* the writer of e takes a command from its sub-queue and applies it
WriterTake(e) ==
    /\ server = "up"
    /\ e \in running
    /\ subq[e] > 0
    /\ subq' = [subq EXCEPT ![e] = @ - 1]
    /\ UNCHANGED <<server, writers_file, running, nstarts>>
    /\ UNCHANGED notRun

\* graceful shutdown: the roster is written with the writers still running,
\* then the writers are woken and end
Shutdown ==
    /\ server = "up"
    /\ writers_file' = File(running)
    /\ running' = {}
    /\ server' = "down"
    /\ UNCHANGED <<subq, nstarts>>
    /\ UNCHANGED notRun

\* the process is killed: nothing is written
Kill ==
    /\ server = "up"
    /\ running' = {}
    /\ server' = "down"
    /\ UNCHANGED <<writers_file, subq, nstarts>>
    /\ UNCHANGED notRun

InitRun ==
    /\ PoolFresh(0)
    /\ CommitFresh
    /\ WriterFresh
    /\ InitFresh
    /\ ConnFresh
    /\ FQFresh(0)
    /\ \E file \in {NoFile, File({})} : RunFresh(file)
    /\ DocFresh
    /\ LimFresh(0, MAX_DOCS, 0, TRUE, 0)
    /\ SearchFresh(0, 0)
    /\ SessionFresh
    /\ ShutFresh("CommandServer")
    /\ NamesFresh(<<".">>)
    /\ ReadersFresh

NextRun ==
    \/ Start
    \/ \E e \in Endpoints : ManageInit(e)
    \/ \E e \in Endpoints : EnqueueWrite(e)
    \/ \E e \in Endpoints : WriterTake(e)
    \/ Shutdown
    \/ Kill

SpecRun == InitRun /\ [][NextRun]_vars

(***************************************************************************)
(*               THE DOCUMENTS OF ONE ENDPOINT: actions                    *)
(***************************************************************************)
\* xapian's replace_document(term, document): the document takes the place
\* of the first document that has the term, the others that have it are
\* deleted; with no such document it is added under a new number
Matching(docs, term) == {d \in docs : term \in d.terms}

FirstDocid(docs) == CHOOSE n \in {d.docid : d \in docs} :
                        \A d \in docs : n <= d.docid

replace_document_AlwaysAdds(docs, term, doc) ==
    (docs \cup {[doc EXCEPT !.docid = lastdocid + 1]})

replace_document(docs, term, doc) ==
    IF Matching(docs, term) = {}
      THEN docs \cup {[doc EXCEPT !.docid = lastdocid + 1]}
      ELSE (docs \ Matching(docs, term))
           \cup {[doc EXCEPT !.docid = FirstDocid(Matching(docs, term))]}

\* Database.index, lines 517-535: the document built for (id, data)
Document(id, data) ==
    [docid |-> 0,
     terms |-> {prefixed(id, "Q")},
     values |-> {<<IndexIdSlot, id>>},
     data |-> data,
     oid |-> id]

\* Database.get_value(document, slot): the empty string for an unset slot
get_value(doc, slot) ==
    IF \E pair \in doc.values : pair[1] = slot
      THEN (CHOOSE pair \in doc.values : pair[1] = slot)[2]
      ELSE ""

\* Database.replace / commit / ...: the engine call, and after a transient
\* error a reopen and the call again; XapianError when that fails too
FacadeAttempts(n) == IF n = 0 THEN 1 ELSE 2

FacadeRaises(n) == n >= 2

\* a connection sends a write command to the endpoint's sub-queue
Submit(cmd, id, data) ==
    /\ ndoc < MaxDocCmds
    /\ ndoc' = ndoc + 1
    /\ dq' = Append(dq, [cmd |-> cmd,
                         id |-> IF cmd = "COMMIT" THEN "" ELSE id,
                         data |-> IF cmd \in {"INDEX", "CINDEX"} THEN data
                                  ELSE ""])
    /\ UNCHANGED <<work, disk, lastdocid, timer, wlife, lastop, indexed, deleted,
                   rows, notfound, faults, attempts>>
    /\ UNCHANGED notDoc

\* _writer_loop takes INDEX or CINDEX: _database_command calls
\* database.index(document) or database.index(document, commit=True);
\* index ends in self.replace(document_id, document)
ApplyIndex(n) ==
    /\ wlife = "running"
    /\ dq # <<>>
    /\ Head(dq).cmd \in {"INDEX", "CINDEX"}
    /\ dq' = Tail(dq)
    /\ faults' = n
    /\ attempts' = FacadeAttempts(n)
    /\ IF FacadeRaises(n)
         THEN /\ wlife' = "raised"
              /\ lastop' = "XapianError"
              /\ UNCHANGED <<work, lastdocid, timer, indexed, deleted>>
         ELSE LET id  == Head(dq).id
                  doc == Document(id, Head(dq).data)
              IN  /\ work' = replace_document(work, prefixed(id, "Q"), doc)
                  /\ lastdocid' = IF Cardinality(work') > Cardinality(work)
                                    THEN lastdocid + 1 ELSE lastdocid
                  /\ timer' = (timer \/ Head(dq).cmd = "INDEX")
                  /\ indexed' = [indexed EXCEPT ![id] = Append(@, Head(dq).data)]
                  /\ deleted' = deleted \ {id}
                  /\ lastop' = Head(dq).cmd
                  /\ wlife' = wlife
    /\ UNCHANGED <<disk, rows, notfound, ndoc>>
    /\ UNCHANGED notDoc

\* _writer_loop takes INDEX or CINDEX and the engine rejects the document:
\* replace_document raises InvalidArgumentError, at once (n = 0) or on the
\* retry after a transient error and a reopen (n = 1).  Database.replace
\* logs it and goes on to `return docid` (core.py:600-615) with docid
\* never assigned: UnboundLocalError, which _database_command logs and
\* raises again (worker.py:81-83) through _writer_loop.
RejectIndex(n) ==
    /\ wlife = "running"
    /\ dq # <<>>
    /\ Head(dq).cmd \in {"INDEX", "CINDEX"}
    /\ dq' = Tail(dq)
    /\ faults' = n
    /\ attempts' = FacadeAttempts(n)
    /\ wlife' = "raised"
    /\ lastop' = "REJECTED"
    /\ UNCHANGED <<work, disk, lastdocid, timer, indexed, deleted, rows, notfound, ndoc>>
    /\ UNCHANGED notDoc

\* _writer_loop takes DELETE or CDELETE: _database_command calls
\* database.delete(database, id[, commit=True]).  With commit=True the
\* call has two values for commit; without, document_id is the Database
\* object, which the engine's delete_document does not accept.  Either
\* way a TypeError leaves the documents as they were.
ApplyDelete ==
    /\ wlife = "running"
    /\ dq # <<>>
    /\ Head(dq).cmd \in {"DELETE", "CDELETE"}
    /\ dq' = Tail(dq)
    /\ wlife' = "raised"
    /\ lastop' = "TypeError"
    /\ faults' = 0
    /\ attempts' = 0
    /\ deleted' = deleted \cup {Head(dq).id}
    /\ UNCHANGED <<work, disk, lastdocid, timer, indexed, rows, notfound, ndoc>>
    /\ UNCHANGED notDoc

\* _writer_loop takes COMMIT: database.commit()
ApplyCommit(n) ==
    /\ wlife = "running"
    /\ dq # <<>>
    /\ Head(dq).cmd = "COMMIT"
    /\ dq' = Tail(dq)
    /\ faults' = n
    /\ attempts' = FacadeAttempts(n)
    /\ IF FacadeRaises(n)
         THEN wlife' = "raised" /\ lastop' = "XapianError" /\ disk' = disk
         ELSE wlife' = wlife /\ lastop' = "COMMIT" /\ disk' = work
    /\ UNCHANGED <<work, lastdocid, timer, indexed, deleted, rows, notfound, ndoc>>
    /\ UNCHANGED notDoc

\* _database_commit finds the endpoint's entry of to_commit due
TimedCommit ==
    /\ wlife = "running"
    /\ timer
    /\ timer' = FALSE
    /\ disk' = work
    /\ lastop' = "TIMED"
    /\ faults' = 0
    /\ attempts' = 1
    /\ UNCHANGED <<dq, work, lastdocid, wlife, indexed, deleted, rows, notfound, ndoc>>
    /\ UNCHANGED notDoc

\* start_writer finds the writer ended and spawns a new one, which gets
\* the writable handle back from the pool, pending changes included
Respawn ==
    /\ wlife = "raised"
    /\ wlife' = "running"
    /\ timer' = FALSE
    /\ lastop' = "none"
    /\ UNCHANGED <<dq, work, disk, lastdocid, indexed, deleted, rows, notfound, faults,
                   attempts, ndoc>>
    /\ UNCHANGED notDoc

\* Search.get_results on a reader that has reopened: a row per document
Row(doc) ==
    [id |-> get_value(doc, SearchIdSlot), docid |-> doc.docid,
     data |-> doc.data, oid |-> doc.oid]

\* Database.get_data returns None on DocNotFoundError, and get_results
\* goes on to the next match when the data is None
Yielded(docs, gone) == {d \in docs : d.docid \notin gone}

\* a SEARCH; for the documents in gone the engine reports DocNotFoundError
\* when their data is read
DoSearch ==
    /\ \E gone \in SUBSET {d.docid : d \in disk} :
          /\ rows' = {Row(d) : d \in Yielded(disk, gone)}
          /\ notfound' = gone
    /\ <<rows', notfound'>> # <<rows, notfound>>
    /\ UNCHANGED <<dq, work, disk, lastdocid, timer, wlife, lastop, indexed, deleted,
                   faults, attempts, ndoc>>
    /\ UNCHANGED notDoc

InitDoc ==
    /\ PoolFresh(0)
    /\ CommitFresh
    /\ WriterFresh
    /\ InitFresh
    /\ ConnFresh
    /\ FQFresh(0)
    /\ RunFresh(NoFile)
    /\ DocFresh
    /\ LimFresh(0, MAX_DOCS, 0, TRUE, 0)
    /\ SearchFresh(0, 0)
    /\ SessionFresh
    /\ ShutFresh("CommandServer")
    /\ NamesFresh(<<".">>)
    /\ ReadersFresh

NextDoc ==
    \/ \E cmd \in DocCmds, id \in DocIdStrings, data \in DocData :
         Submit(cmd, id, data)
    \/ \E n \in 0..MaxFaults : ApplyIndex(n)
    \/ \E n \in 0..1 : RejectIndex(n)
    \/ ApplyDelete
    \/ \E n \in 0..MaxFaults : ApplyCommit(n)
    \/ TimedCommit
    \/ Respawn
    \/ DoSearch

SpecDoc == InitDoc /\ [][NextDoc]_vars

(***************************************************************************)
(*               THE WINDOW OF A SEARCH: actions                           *)
(***************************************************************************)
Floor0_Missing(n) == n

\* max(..., 0)
Floor0(n) == Max(n, 0)

\* Search.get_results, lines 241-249: enquire.get_mset(first, maxitems,
\* check_at_least)
get_results ==
    /\ mset = None
    /\ mset' = <<first,
                 IF ~get_matches THEN 0
                 ELSE Floor0(Min3(maxitems, doccount - first, MAX_DOCS)),
                 Floor0(Min3(check_at_least, doccount, MAX_DOCS))>>
    /\ UNCHANGED <<first, maxitems, check_at_least, get_matches, doccount>>
    /\ UNCHANGED notLim

InitLim ==
    /\ PoolFresh(0)
    /\ CommitFresh
    /\ WriterFresh
    /\ InitFresh
    /\ ConnFresh
    /\ FQFresh(0)
    /\ RunFresh(NoFile)
    /\ DocFresh
    /\ \E f \in Requested, m \in Requested, c \in Requested, g \in BOOLEAN,
          d \in Doccounts : LimFresh(f, m, c, g, d)
    /\ SearchFresh(0, 0)
    /\ SessionFresh
    /\ ShutFresh("CommandServer")
    /\ NamesFresh(<<".">>)
    /\ ReadersFresh

NextLim == get_results

SpecLimits == InitLim /\ [][NextLim]_vars

(***************************************************************************)
(*               CONCURRENT SEARCHES: actions                              *)
(***************************************************************************)
\* enquire.get_mset(first, maxitems, check_at_least): the matches from
\* position first on, at most maxitems of them
MsetSize_OneShort(f, m) == Max(Min(m, matching - f) - 1, 0)

MsetSize(f, m) == Max(Min(m, matching - f), 0)

\* XapiandReceiver.search / find: get_data is set for SEARCH only
GetsData(cmd) == cmd = "SEARCH"

\* a client sends SEARCH or FIND with OFFSET o LIMIT l; its handler parses
\* the line and get_results computes the window and gets the mset
StartSearch(c, cmd, o, l) ==
    /\ spc[c] = "idle"
    /\ squery' = [squery EXCEPT ![c] = [cmd |-> cmd, first |-> o,
                                        maxitems |-> l]]
    /\ msize' = [msize EXCEPT ![c] =
                   MsetSize(o, Floor0(Min3(l, matching + others - o,
                                           MAX_DOCS)))]
    /\ spc' = [spc EXCEPT ![c] = "iterating"]
    /\ UNCHANGED <<matching, others, produced, withdata>>
    /\ UNCHANGED notSearch

\* get_results yields the next match, _search sends it
YieldRow(c) ==
    /\ spc[c] = "iterating"
    /\ produced[c] < msize[c]
    /\ produced[c] < MaxRowSteps
    /\ produced' = [produced EXCEPT ![c] = @ + 1]
    /\ withdata' = [withdata EXCEPT ![c] =
                      IF GetsData(squery[c].cmd) THEN @ + 1 ELSE @]
    /\ UNCHANGED <<matching, others, squery, spc, msize>>
    /\ UNCHANGED notSearch

\* the remaining matches of a long result
YieldRest(c) ==
    /\ spc[c] = "iterating"
    /\ produced[c] < msize[c]
    /\ produced[c] >= MaxRowSteps
    /\ produced' = [produced EXCEPT ![c] = msize[c]]
    /\ withdata' = [withdata EXCEPT ![c] =
                      IF GetsData(squery[c].cmd)
                        THEN @ + (msize[c] - produced[c]) ELSE @]
    /\ UNCHANGED <<matching, others, squery, spc, msize>>
    /\ UNCHANGED notSearch

\* the loop over the matches ends: `>> OK`
EndSearch(c) ==
    /\ spc[c] = "iterating"
    /\ produced[c] = msize[c]
    /\ spc' = [spc EXCEPT ![c] = "done"]
    /\ UNCHANGED <<matching, others, squery, msize, produced, withdata>>
    /\ UNCHANGED notSearch

InitSearch ==
    /\ PoolFresh(0)
    /\ CommitFresh
    /\ WriterFresh
    /\ InitFresh
    /\ ConnFresh
    /\ FQFresh(0)
    /\ RunFresh(NoFile)
    /\ DocFresh
    /\ LimFresh(0, MAX_DOCS, 0, TRUE, 0)
    /\ \E n \in Matchings, k \in {0, 1} : SearchFresh(n, k)
    /\ SessionFresh
    /\ ShutFresh("CommandServer")
    /\ NamesFresh(<<".">>)
    /\ ReadersFresh

NextSearch ==
    \/ \E c \in Clients, cmd \in SearchCmds, o \in Offsets, l \in Limits :
         StartSearch(c, cmd, o, l)
    \/ \E c \in Clients : YieldRow(c)
    \/ \E c \in Clients : YieldRest(c)
    \/ \E c \in Clients : EndSearch(c)

SpecSearch == InitSearch /\ [][NextSearch]_vars

(***************************************************************************)
(*               THE SESSION OF ONE CONNECTION: actions                    *)
(***************************************************************************)
Observed(raised) ==
    /\ session_open
    /\ nsession < MaxSessionCmds
    /\ nsession' = nsession + 1
    /\ before' = active_endpoints
    /\ failed' = raised
    /\ session_open' = session_open

\* XapiandReceiver.create: CREATE <endpoint>; ok says whether _reopen
\* returns or raises InvalidIndexError
CreateReplies(ok) == IF ok THEN <<"OK">> ELSE <<"ERR", "OK">>

SessionCreate(line, ok) ==
    /\ Len(line) <= 1
    /\ lastcmd' = "CREATE"
    /\ Observed(line # <<>> /\ ~ok)
    /\ IF line = <<>>
         THEN replies' = <<"ERR">> /\ active_endpoints' = active_endpoints
         ELSE /\ replies' = CreateReplies(ok)
              /\ active_endpoints' = IF ok THEN line ELSE active_endpoints
    /\ UNCHANGED notSession

\* the status line after a successful or argument-less OPEN / USING:
\* OK when endpoints are selected, else the [405] error
OpenReplies_AlwaysOk(selected) == <<"OK">>

OpenReplies(selected) ==
    IF selected # None THEN <<"OK">> ELSE <<"ERR405">>

\* XapiandReceiver.open and XapiandReceiver.using: the same but for
\* create=False / create=True in _reopen
OpenOrUsing(line, ok) ==
    /\ Observed(line # <<>> /\ ~ok)
    /\ IF line # <<>> /\ ~ok
         THEN replies' = <<"ERR">> /\ active_endpoints' = active_endpoints
         ELSE /\ active_endpoints' = IF line # <<>> THEN line
                                     ELSE active_endpoints
              /\ replies' = OpenReplies(active_endpoints')
    /\ UNCHANGED notSession

SessionOpen(line, ok) ==
    /\ lastcmd' = "OPEN"
    /\ OpenOrUsing(line, ok)

SessionUsing(line, ok) ==
    /\ lastcmd' = "USING"
    /\ OpenOrUsing(line, ok)

\* QUIT, or the client hangs up
Quit ==
    /\ session_open
    /\ session_open' = FALSE
    /\ UNCHANGED <<active_endpoints, replies, lastcmd, failed, before,
                   nsession>>
    /\ UNCHANGED notSession

InitSession ==
    /\ PoolFresh(0)
    /\ CommitFresh
    /\ WriterFresh
    /\ InitFresh
    /\ ConnFresh
    /\ FQFresh(0)
    /\ RunFresh(NoFile)
    /\ DocFresh
    /\ LimFresh(0, MAX_DOCS, 0, TRUE, 0)
    /\ SearchFresh(0, 0)
    /\ SessionFresh
    /\ ShutFresh("CommandServer")
    /\ NamesFresh(<<".">>)
    /\ ReadersFresh

NextSession ==
    \/ \E line \in Lines, ok \in BOOLEAN : SessionCreate(line, ok)
    \/ \E line \in Lines, ok \in BOOLEAN : SessionOpen(line, ok)
    \/ \E line \in Lines, ok \in BOOLEAN : SessionUsing(line, ok)
    \/ Quit

SpecSession == InitSession /\ [][NextSession]_vars

(***************************************************************************)
(*               SHUTDOWN: actions                                         *)
(*                                                                         *)
(* worker.py runs a CommandServer (base.py) and worker2.py an              *)
(* XapianDispatcher; both install close as the handler of SIGTERM and      *)
(* SIGINT and both call close(max_age=10) while they wait for the clients. *)
(***************************************************************************)
ShOpen == {c \in ShutClients : shClient[c] = "open"}

\* the connections in S end now, closed by `by`
Ended(S, by) ==
    /\ shClient' = [c \in ShutClients |-> IF c \in S THEN "ended"
                                          ELSE shClient[c]]
    /\ shEnd' = [c \in ShutClients |->
                   IF c \in S THEN [by |-> by, signals |-> shSignals',
                                    idle |-> shIdle[c]]
                   ELSE shEnd[c]]

\* XapianDispatcher.close: the clients it closes; forced when max_age is None
to_clean(forced) ==
    {c \in ShOpen : forced \/ weak_client(c) \/ shIdle[c] > max_age}

\* XapianDispatcher.close: return not bool(self.clients)
Returned(remaining) == IF remaining = {} THEN "True" ELSE "False"

\* StreamServer.handle: a connection is accepted while the listener is open
ShConnect(c) ==
    /\ ~shClosed
    /\ shClient[c] = "new"
    /\ shClient' = [shClient EXCEPT ![c] = "open"]
    /\ shIdle' = [shIdle EXCEPT ![c] = 0]
    /\ UNCHANGED <<shImpl, shClosed, shFlag, shSignals, shMain, shLast, shEnd>>
    /\ UNCHANGED notShut

\* ClientReceiver.handle: a line arrives and is handled; the loop goes on
\* while the client's closed flag is not set
ShActivity(c) ==
    /\ shClient[c] = "open"
    /\ shIdle' = [shIdle EXCEPT ![c] = 0]
    /\ shSignals' = shSignals
    /\ IF shFlag[c]
         THEN Ended({c}, "server")
         ELSE UNCHANGED <<shClient, shEnd>>
    /\ UNCHANGED <<shImpl, shClosed, shFlag, shMain, shLast>>
    /\ UNCHANGED notShut

\* the peer hangs up: readline returns nothing
ShHangup(c) ==
    /\ shClient[c] = "open"
    /\ shSignals' = shSignals
    /\ Ended({c}, "peer")
    /\ UNCHANGED <<shImpl, shClosed, shIdle, shFlag, shMain, shLast>>
    /\ UNCHANGED notShut

\* time passes
ShTick ==
    /\ \E c \in ShOpen : shIdle[c] < MaxIdle
    /\ shIdle' = [c \in ShutClients |->
                    IF c \in ShOpen THEN Min(shIdle[c] + IdleStep, MaxIdle)
                    ELSE shIdle[c]]
    /\ UNCHANGED <<shImpl, shClosed, shClient, shFlag, shSignals, shMain,
                   shLast, shEnd>>
    /\ UNCHANGED notShut

\* XapianDispatcher.close(max_age)
DispatcherClose(forced) ==
    /\ shClosed' = TRUE
    /\ Ended(to_clean(forced), "server")
    /\ shLast' = [ret |-> Returned(ShOpen \ to_clean(forced)),
                  left |-> Cardinality(ShOpen \ to_clean(forced))]
    /\ UNCHANGED shFlag

\* CommandServer.close(): the second call closes the sockets, the first
\* closes the listener and marks every client closed
CommandServerClose ==
    /\ shClosed' = TRUE
    /\ IF shClosed
         THEN /\ Ended(ShOpen, "server")
              /\ UNCHANGED shFlag
              /\ shLast' = [ret |-> "None", left |-> 0]
         ELSE /\ shFlag' = [c \in ShutClients |-> shFlag[c] \/ c \in ShOpen]
              /\ UNCHANGED <<shClient, shEnd>>
              /\ shLast' = [ret |-> "None", left |-> Cardinality(ShOpen)]

\* SIGTERM or SIGINT: gevent calls close() with no argument
ShSignal ==
    /\ shSignals < 2
    /\ shSignals' = shSignals + 1
    /\ IF shImpl = "XapianDispatcher"
         THEN DispatcherClose(shClosed)
         ELSE CommandServerClose
    /\ shMain' = IF shMain = "serving" THEN "waiting" ELSE shMain
    /\ UNCHANGED <<shImpl, shIdle>>
    /\ UNCHANGED notShut

\* xapiand_run, waiting for the clients: close(max_age=10), which a
\* CommandServer does not accept (TypeError)
ShPoll ==
    /\ shMain = "waiting"
    /\ shSignals' = shSignals
    /\ IF shImpl = "XapianDispatcher"
         THEN /\ DispatcherClose(FALSE)
              /\ shMain' = IF ShOpen \ to_clean(FALSE) = {} THEN "done"
                           ELSE "waiting"
         ELSE /\ shMain' = "raised"
              /\ shLast' = [ret |-> "TypeError", left |-> Cardinality(ShOpen)]
              /\ UNCHANGED <<shClosed, shClient, shFlag, shEnd>>
    /\ UNCHANGED <<shImpl, shIdle>>
    /\ UNCHANGED notShut

InitShut ==
    /\ PoolFresh(0)
    /\ CommitFresh
    /\ WriterFresh
    /\ InitFresh
    /\ ConnFresh
    /\ FQFresh(0)
    /\ RunFresh(NoFile)
    /\ DocFresh
    /\ LimFresh(0, MAX_DOCS, 0, TRUE, 0)
    /\ SearchFresh(0, 0)
    /\ SessionFresh
    /\ \E impl \in ServerClasses : ShutFresh(impl)
    /\ NamesFresh(<<".">>)
    /\ ReadersFresh

NextShut ==
    \/ \E c \in ShutClients : ShConnect(c)
    \/ \E c \in ShutClients : ShActivity(c)
    \/ \E c \in ShutClients : ShHangup(c)
    \/ ShTick
    \/ ShSignal
    \/ ShPoll

SpecShut == InitShut /\ [][NextShut]_vars

(***************************************************************************)
(*               THE NAMES OF THE SUB-QUEUES: actions                      *)
(***************************************************************************)
\* the name of the queue start_writer hands to the endpoint's writer
WriterQueue == join(data_dir, WriterName)

\* the name of the queue a write command is put on: _xapian_index and
\* _xapian_commit join the data directory and the name, _xapian_delete
\* takes the name alone
CommandQueue(cmd) ==
    IF cmd \in {"DELETE", "CDELETE"} THEN WriterName
    ELSE join(data_dir, WriterName)

\* _enqueue (server.py:525-530): the message is put unless STOPPED is set,
\* and a put the queue refuses (Queue.Full) is logged and dropped
Refused(full) == server_stopped \/ full

\* _enqueue(msg, get_queue(name)), called by _index, _delete or commit
\* (server.py:323-328, 350-367, 394-399), which then send >> OK
Enqueue(cmd, id, full) ==
    /\ Len(issued) < MaxNamed
    /\ issued' = Append(issued, <<cmd, id>>)
    /\ IF Refused(full)
         THEN UNCHANGED <<named, reached>>
         ELSE /\ named' = [named EXCEPT ![CommandQueue(cmd)] = Append(@, <<cmd, id>>)]
              /\ reached' = Append(reached, <<cmd, id>>)
    /\ UNCHANGED <<data_dir, consumed, server_stopped>>
    /\ UNCHANGED notNames

_xapian_index(cmd, id, full) ==
    /\ cmd \in {"INDEX", "CINDEX"}
    /\ Enqueue(cmd, id, full)

_xapian_delete(cmd, id, full) ==
    /\ cmd \in {"DELETE", "CDELETE"}
    /\ Enqueue(cmd, id, full)

_xapian_commit(full) ==
    /\ data_dir \in DataDirs
    /\ Enqueue("COMMIT", "", full)

\* _server_stop at the first signal (server.py:724-749): STOPPED is set,
\* the listener is closed and the clients in server.clients are flagged
\* closed (base.py:207-215).  The connection followed here was accepted
\* before the signal and is added to server.clients after it
\* (base.py:197-200): it is served on.
_server_stop ==
    /\ ~server_stopped
    /\ server_stopped' = TRUE
    /\ UNCHANGED <<data_dir, named, consumed, issued, reached>>
    /\ UNCHANGED notNames

\* _writer_loop: tq.get returns the next command of the writer's queue
WriterGet ==
    /\ ~server_stopped
    /\ named[WriterQueue] # <<>>
    /\ consumed' = Append(consumed, Head(named[WriterQueue]))
    /\ named' = [named EXCEPT ![WriterQueue] = Tail(@)]
    /\ UNCHANGED <<data_dir, issued, server_stopped, reached>>
    /\ UNCHANGED notNames

InitNames ==
    /\ PoolFresh(0)
    /\ CommitFresh
    /\ WriterFresh
    /\ InitFresh
    /\ ConnFresh
    /\ FQFresh(0)
    /\ RunFresh(NoFile)
    /\ DocFresh
    /\ LimFresh(0, MAX_DOCS, 0, TRUE, 0)
    /\ SearchFresh(0, 0)
    /\ SessionFresh
    /\ ShutFresh("CommandServer")
    /\ \E d \in DataDirs : NamesFresh(d)
    /\ ReadersFresh

NextNames ==
    \/ \E cmd \in {"INDEX", "CINDEX"}, id \in DocIdStrings, full \in BOOLEAN :
         _xapian_index(cmd, id, full)
    \/ \E cmd \in {"DELETE", "CDELETE"}, id \in DocIdStrings, full \in BOOLEAN :
         _xapian_delete(cmd, id, full)
    \/ \E full \in BOOLEAN : _xapian_commit(full)
    \/ WriterGet
    \/ _server_stop

SpecNames == InitNames /\ [][NextNames]_vars

(***************************************************************************)
(*               READS AFTER WRITES: actions                               *)
(***************************************************************************)
\* DatabasesPool.database, lines 398-411: the handle an acquisition of the
\* reader key gets: the last of `unused`, or a new one
Taken == IF rdUnused # <<>> THEN rdUnused[Len(rdUnused)] ELSE rdNh + 1

\* INDEX, CINDEX, DELETE, CDELETE, COMMIT (server.py:323-324, 350-351,
\* 394-395): self._do_reopen = True
WriteCmd(c) ==
    /\ rdConn[c].pc = "idle"
    /\ rdNow < MaxStamp
    /\ rdNow' = rdNow + 1
    /\ rdConn' = [rdConn EXCEPT ![c]._do_reopen = TRUE, ![c].mark = rdNow + 1]
    /\ UNCHANGED <<rdUnused, rdStamp, rdNh>>
    /\ UNCHANGED notReaders

\* REOPEN (server.py:113-128): calls self._reopen()
ReopenCmd(c) ==
    /\ rdConn[c].pc = "idle"
    /\ rdNow < MaxStamp
    /\ rdNow' = rdNow + 1
    /\ rdConn' = [rdConn EXCEPT ![c].pc = "reopen", ![c].mark = rdNow + 1,
                                 ![c].then = "idle"]
    /\ UNCHANGED <<rdUnused, rdStamp, rdNh>>
    /\ UNCHANGED notReaders

\* SEARCH, FIND, TERMS, FACETS, COUNT: XapiandReceiver.dispatch
\* (server.py:87-93) calls _reopen when _do_reopen is set, then hands the
\* command to its handler
ReadCmd(c) ==
    /\ rdConn[c].pc = "idle"
    /\ rdConn' = [rdConn EXCEPT ![c].pc = IF rdConn[c]._do_reopen THEN "reopen"
                                          ELSE "dispatched",
                                 ![c].then = "dispatched"]
    /\ UNCHANGED <<rdUnused, rdStamp, rdNow, rdNh>>
    /\ UNCHANGED notReaders

\* _reopen (server.py:95-99) enters its with block: a reader handle is
\* acquired with reopen=True, so it sees the index as it is now
ReopenTake(c) ==
    /\ rdConn[c].pc = "reopen"
    /\ Taken <= MaxReaderHandles
    /\ rdStamp' = [rdStamp EXCEPT ![Taken] = rdNow]
    /\ rdConn' = [rdConn EXCEPT ![c].pc = "reopened", ![c].h = Taken,
                                 ![c]._do_reopen = FALSE]
    /\ rdUnused' = SubSeq(rdUnused, 1, Len(rdUnused) - 1)
    /\ rdNh' = Max(rdNh, Taken)
    /\ UNCHANGED rdNow
    /\ UNCHANGED notReaders

\* _reopen leaves its with block: the handle goes back to `unused`
\* (core.py:417-424)
ReopenRelease(c) ==
    /\ rdConn[c].pc = "reopened"
    /\ rdUnused' = Append(rdUnused, rdConn[c].h)
    /\ rdConn' = [rdConn EXCEPT ![c].pc = rdConn[c].then, ![c].h = NoDb]
    /\ UNCHANGED <<rdStamp, rdNow, rdNh>>
    /\ UNCHANGED notReaders

\* the handler of the read command, _search or count (server.py:203-205,
\* 299), acquires a reader handle without reopen; a handle opened now
\* sees the index as it is now
SearchTake(c) ==
    /\ rdConn[c].pc = "dispatched"
    /\ Taken <= MaxReaderHandles
    /\ rdStamp' = IF rdUnused = <<>> THEN [rdStamp EXCEPT ![Taken] = rdNow]
                   ELSE rdStamp
    /\ rdConn' = [rdConn EXCEPT ![c].pc = "searching", ![c].h = Taken]
    /\ rdUnused' = SubSeq(rdUnused, 1, Len(rdUnused) - 1)
    /\ rdNh' = Max(rdNh, Taken)
    /\ UNCHANGED rdNow
    /\ UNCHANGED notReaders

\* the handler has sent its rows and leaves the with block
SearchRelease(c) ==
    /\ rdConn[c].pc = "searching"
    /\ rdUnused' = Append(rdUnused, rdConn[c].h)
    /\ rdConn' = [rdConn EXCEPT ![c].pc = "idle", ![c].h = NoDb]
    /\ UNCHANGED <<rdStamp, rdNow, rdNh>>
    /\ UNCHANGED notReaders

InitReaders ==
    /\ PoolFresh(0)
    /\ CommitFresh
    /\ WriterFresh
    /\ InitFresh
    /\ ConnFresh
    /\ FQFresh(0)
    /\ RunFresh(NoFile)
    /\ DocFresh
    /\ LimFresh(0, MAX_DOCS, 0, TRUE, 0)
    /\ SearchFresh(0, 0)
    /\ SessionFresh
    /\ ShutFresh("CommandServer")
    /\ NamesFresh(<<".">>)
    /\ ReadersFresh

NextReaders ==
    \/ \E c \in Readers : WriteCmd(c)
    \/ \E c \in Readers : ReopenCmd(c)
    \/ \E c \in Readers : ReadCmd(c)
    \/ \E c \in Readers : ReopenTake(c)
    \/ \E c \in Readers : ReopenRelease(c)
    \/ \E c \in Readers : SearchTake(c)
    \/ \E c \in Readers : SearchRelease(c)

SpecReaders == InitReaders /\ [][NextReaders]_vars

(***************************************************************************)
(* Claims about the database pool.                                         *)
(***************************************************************************)
Holds(p, q, h) == Active(p) /\ acq[p].q = q /\ acq[p].database = h

\* C1: for the writable key of an endpoint the handles in `used` plus those
\* in `unused` of its pool entry never number more than one.  (The pool has
\* no semaphore; a writer that closed its handle is still in `used` when the
\* next acquirer of the key opens a new one.)
C1_SingleWriterHandle ==
    pool[WKey] # NoQ => Cardinality(used[pool[WKey]]) + Len(unused[pool[WKey]]) <= 1

\* C7: every handle in the `used` set of a queue is held by an acquisition
\* that has not ended yet (so once an acquisition has ended, by whatever
\* path, its handle is not in `used`), and `used` and `unused` are disjoint.
C7_ReleasedOnEveryPath ==
    \A q \in QIds :
        /\ \A h \in used[q] : \E p \in Acquirers : Holds(p, q, h)
        /\ used[q] \cap InUnused(q) = {}

\* C7 witness: every acquisition has ended, one of them with a handle that
\* was closed (a failed reopen or a closing body) and one of them normally,
\* its new handle being idle again.
C7_Witness ==
    /\ \A p \in Acquirers : ~Active(p)
    /\ nacq >= 2
    /\ \E h \in closed : \A q \in QIds : h \notin used[q] /\ h \notin InUnused(q)
    /\ \E q \in QIds : \E h \in InUnused(q) : h > HandleBase

\* C8: no queue object that something still refers to has a closed handle
\* in `unused`.  (DatabasesPoolQueue.cleanup closes the idle handles of an
\* evicted queue and leaves them in `unused`.)
C8_UnusedNeverClosed ==
    \A q \in LiveQueues : InUnused(q) \cap closed = {}

IdleAfter(q) == {unused'[q][i] : i \in 1..Len(unused'[q])}

\* C9: when an acquisition ends holding handle h, h is idle afterwards
\* exactly when it is not closed and the queue had fewer than PoolSize idle
\* handles, and h is closed otherwise; and no queue ever holds more than
\* PoolSize idle handles.
C9_ReleasePolicy ==
    /\ [](\A q \in QIds : Len(unused[q]) <= PoolSize)
    /\ [][\A p \in Acquirers :
            (acq[p].pc \in {"reopen", "body"} /\ acq'[p].pc = "idle") =>
                LET q == acq[p].q
                    h == acq[p].database
                IN  /\ (h \in IdleAfter(q)) <=>
                            (h \notin closed' /\ Len(unused[q]) < PoolSize)
                    /\ (h \notin IdleAfter(q)) => h \in closed'
                    /\ h \in closed => h \notin IdleAfter(q)]_vars

\* C9 witness: a queue is full and a handle released into it was closed.
C9_Witness ==
    \E q \in QIds :
        /\ Len(unused[q]) = PoolSize
        /\ \E h \in closed : h > PoolSize /\ \A p \in Acquirers : acq[p].database # h

(***************************************************************************)
(* Claims about the commit policy.                                         *)
(***************************************************************************)
\* C2: at every instant at most CommitSlots commits are in progress over all
\* writers, and every commit in progress holds a permit of the commit
\* semaphore.  (The commit started because dt0 <= now - maximum takes no
\* permit.)
C2_CommitsWithinSlots ==
    /\ Cardinality({w \in Writers : Committing(w)}) <= CommitSlots
    /\ \A w \in Writers : Committing(w) => locked[w]

Pending(w) == to_commit[w] # None /\ wpc[w] \in {"top", "get"} /\ ~STOPPED

C29_EntryOrdered ==
    /\ [](\A w \in Writers :
            to_commit[w] # None =>
                /\ to_commit[w][1] >= to_commit[w][2]
                /\ to_commit[w][2] >= to_commit[w][3])
    /\ [][\A w \in Writers :
            (to_commit[w] # None /\ wpc[w] = "get" /\ wpc'[w] = "top"
               /\ tq'[w] < tq[w]) =>
                /\ to_commit'[w] # None
                /\ to_commit'[w][1] = to_commit[w][1]
                /\ to_commit'[w][2] = to_commit[w][2]
                /\ to_commit'[w][3] = 0]_vars

\* a write has just been applied for an endpoint whose entry had aged
C29_Witness ==
    \E w \in Writers :
        /\ wpc[w] = "top"
        /\ to_commit[w] # None
        /\ to_commit[w][1] > 0
        /\ to_commit[w][2] = to_commit[w][1]
        /\ to_commit[w][3] = 0

\* C30: the free commit slots stay between 0 and CommitSlots, and the
\* slots not free are exactly those held by writers whose commit is in
\* progress: a writer holds no slot outside a commit, whether its last
\* commit returned or raised.  A writer whose commit raises keeps its
\* pending-commit entry.
C30_SlotsConserved ==
    /\ [](/\ commit_lock \in 0..CommitSlots
          /\ commit_lock + Cardinality({w \in Writers : locked[w]})
               = CommitSlots
          /\ \A w \in Writers : locked[w] => Committing(w))
    /\ [][\A w \in Writers :
            (Committing(w) /\ wpc'[w] = "dead") =>
                /\ to_commit[w] # None
                /\ to_commit'[w] = to_commit[w]]_vars

\* the commit of a writer that applied the only write raised, and all the
\* slots are free again
C30_Witness ==
    /\ nwrites = 1
    /\ commit_lock = CommitSlots
    /\ \E w \in Writers :
          /\ wpc[w] = "dead"
          /\ tq[w] = 0
          /\ to_commit[w] # None

\* C24: a writer that has stopped, by the shutdown wake-up or by an error
\* raised while it applied a command, has run a forced commit pass: it
\* leaves no entry in its pending-commit table.  (An exception leaves
\* _writer_loop without the pass of line 174.)
C24_StoppedWriterLeftNothing ==
    \A w \in Writers :
        wpc[w] \in {"ended", "dead"} => to_commit[w] = None

(***************************************************************************)
(* Claims about the writers' queues.                                       *)
(***************************************************************************)
Consumed(db) == SubSeq(enqueued[db], 1, Len(enqueued[db]) - Len(QUEUES[db]))

\* C3: for every endpoint, the commands its writer has applied are exactly
\* the commands its writer has taken from the sub-queue, in the order in
\* which they were put there: none reordered, skipped or applied twice.
\* (An envelope forwarded by the manager names its endpoint by a string; the
\* writer visits the characters of the string.)
C3_AppliedInEnqueueOrder ==
    \A db \in Dbs : applied[db] = Consumed(db)

\* C25: every command put on the sub-queue of an endpoint is meant for
\* that endpoint, so the writer applies every envelope it takes: each
\* command taken from the sub-queue is among the commands applied.  (The
\* envelope the manager forwards names the endpoint by a string, whose
\* characters the writer compares with its endpoint.)
C25_ForwardedIsApplied ==
    \A db \in Dbs :
        \A k \in 1..Len(Consumed(db)) :
            \E j \in 1..Len(applied[db]) : applied[db][j] = Consumed(db)[k]

(***************************************************************************)
(* Claims about the life of a writer.                                      *)
(***************************************************************************)
\* C5: a write waiting on E's sub-queue always has a writer to apply it: E's
\* writer is alive, or an INIT that starts it is on its way to the manager.
\* (A connection sends INIT for E only once; after the writer's idle exit
\* its next write starts no writer.)
C5_QueuedWriteHasWriter ==
    inbox > 0 => (alive \/ MAIN_QUEUE > 0)

(***************************************************************************)
(* Claims about cancellation.                                              *)
(***************************************************************************)
\* C4: every line the handler of command k sends is sent while k is still
\* the connection's latest command: once command k+1 has been received,
\* the handler of k sends nothing more.  (The size row, the DEBUG comment
\* and the status line are sent without an alive check.)
C4_NoLineAfterNextCommand ==
    \A r \in wire : r.cur = r.by

\* sendLine: a line that starts with "#" or " " gets no prefix
HasPrefix(r) == r.kind # "debug"

\* C14: every line on the wire that carries a prefix carries the number of
\* the command whose handler sent it.  (sendLine takes the prefix from the
\* receiver's cmd_id, which the next command received has incremented.)
C14_PrefixIsOwnCommand ==
    \A r \in wire : HasPrefix(r) => r.cur = r.by

(***************************************************************************)
(* Claims about the file-backed queue.                                     *)
(***************************************************************************)
IsPrefix(a, b) == Len(a) <= Len(b) /\ \A i \in 1..Len(a) : a[i] = b[i]

\* C10: the values get has returned so far are the first values put, in put
\* order, the undelivered values of the earlier run first: no value is
\* skipped, returned twice or returned out of order.  (A get that serves a
\* record of the log also takes the head of the memory queue and drops it.)
C10_ReturnedInPutOrder ==
    IsPrefix(returned, putlog)

\* C11: every value get has returned is a value that was put; the bytes of
\* a record whose crc32 does not match them are never deserialized and
\* returned.
C11_OnlyPutValuesReturned ==
    \A i \in 1..Len(returned) : \E j \in 1..Len(putlog) : returned[i] = putlog[j]

\* a get met the damaged first record of the log, left by an earlier run,
\* and went back to the stored position; values have been returned
C11_Witness ==
    /\ 1 \in Damaged
    /\ bucket[1].seq <= MaxOld
    /\ spos = <<0, 0>>
    /\ ngets >= 2
    /\ returned # <<>>

(***************************************************************************)
(* Claims about restarts.                                                  *)
(***************************************************************************)
\* C12: with a persistent queue, start-up never fails for want of a roster
\* file, and whenever the server is up, every endpoint whose sub-queue holds
\* commands has a writer.  (The roster is written at graceful shutdown only
\* and is opened for reading without a check that it exists.)
C12_QueuedEndpointHasWriter ==
    /\ server # "failed"
    /\ server = "up" => \A e \in Endpoints : subq[e] > 0 => e \in running

(***************************************************************************)
(* Claims about documents.                                                 *)
(***************************************************************************)
\* C13: when the last thing the writer did was to apply a CINDEX or a
\* CDELETE, nothing is pending: a reader that reopens sees the documents
\* as the writer sees them.  (Database.index does not hand its commit
\* argument on to replace.)
C13_CommitAfter ==
    lastop \in {"CINDEX", "CDELETE"} => disk = work

\* C15: once an index operation for id X has been applied, the endpoint
\* holds exactly one document whose id is X, and its content is that of
\* the last index operation applied for X.
WithId(x) == {d \in work : <<IndexIdSlot, x>> \in d.values}

C15_OneDocumentLastContent ==
    \A x \in DocIdStrings :
        indexed[x] # <<>> =>
            /\ Cardinality(WithId(x)) = 1
            /\ \A d \in WithId(x) : d.data = indexed[x][Len(indexed[x])]

\* the same id was indexed twice, with different contents
C15_Witness ==
    \E x \in DocIdStrings :
        /\ Len(indexed[x]) >= 2
        /\ indexed[x][1] # indexed[x][2]

\* C18: the id of every match row is the id its document was indexed with.
\* (index stores the id in get_slot('ID'), the search reads get_slot('id'),
\* and get_slot does not fold the two names to one.)
C18_RowIdIsIndexedId ==
    \A r \in rows : r.id = r.oid

\* C23: a matched document whose data the engine does not find
\* (DocNotFoundError) still has its match row in the result.  (The rows
\* of the model all carry data: get_results skips the others.)
C23_RowWithoutData ==
    \A n \in notfound : \E r \in rows : r.docid = n

\* C27: once the writer has taken a DELETE for an id, no document with
\* that id remains on the endpoint (until the id is indexed again).
C27_DeletedIdIsGone ==
    \A x \in deleted : WithId(x) = {}

\* C28: when the last thing the writer did was to apply an explicit
\* COMMIT, its pending-commit table has no entry for the endpoint, so no
\* timed commit follows.  (_writer_loop touches to_commit for INDEX and
\* DELETE only; the entry of an earlier INDEX outlives the COMMIT.)
C28_CommitClearsPending ==
    lastop = "COMMIT" => ~timer

\* C19: XapianError is raised only after 4 attempts, and fewer than 4
\* transient failures in a row are not visible to the caller.  (The facade
\* makes the engine call, reopens, and makes it once more.)
C19_FourAttempts ==
    /\ lastop = "XapianError" => attempts = 4
    /\ faults < 4 => lastop # "XapianError"

(***************************************************************************)
(* Claims about the window of a search.                                    *)
(***************************************************************************)
\* C16 as stated: the engine is asked for maxitems and check_at_least with
\* 0 <= maxitems <= min(10000, doccount - first) and
\* 0 <= check_at_least <= min(10000, doccount).
C16_WithinWindow ==
    mset # None =>
        /\ 0 <= mset[2] /\ mset[2] <= Min(MAX_DOCS, doccount - first)
        /\ 0 <= mset[3] /\ mset[3] <= Min(MAX_DOCS, doccount)

\* C16: the engine is asked for maxitems and check_at_least with
\* 0 <= maxitems <= max(0, min(10000, doccount - first)) and
\* 0 <= check_at_least <= min(10000, doccount): an offset beyond the last
\* document gives a window of no items.
C16_WithinWindowOrEmpty ==
    mset # None =>
        /\ 0 <= mset[2]
        /\ mset[2] <= Max(0, Min(MAX_DOCS, doccount - first))
        /\ 0 <= mset[3] /\ mset[3] <= Min(MAX_DOCS, doccount)

\* a search whose offset lies beyond the last document has been computed
C16_Witness ==
    /\ mset # None
    /\ first > doccount
    /\ maxitems > 0
    /\ get_matches
    /\ mset[2] = 0

(***************************************************************************)
(* Claims about the rows of a search.                                      *)
(***************************************************************************)
Enough(c) ==
    /\ spc[c] = "done"
    /\ squery[c].cmd = "SEARCH"
    /\ matching >= squery[c].first + squery[c].maxitems

C20_FailedOpenRepliesErrOnce ==
    failed => /\ replies = <<"ERR">>
              /\ active_endpoints = before

\* C21 as stated: after OPEN or USING the reply is OK only with a
\* non-empty selection, and with an empty selection the reply is always
\* the [405] error.
C21_EmptySelectionReplies405 ==
    lastcmd \in {"OPEN", "USING"} =>
        /\ (replies = <<"OK">> => active_endpoints # None)
        /\ (active_endpoints = None => replies = <<"ERR405">>)

\* C21 amended: with an empty selection the reply is the [405] error unless
\* the command's own open failed, which is answered with its ERR line.
C21_EmptySelectionRepliesErr ==
    lastcmd \in {"OPEN", "USING"} =>
        /\ (replies = <<"OK">> => active_endpoints # None)
        /\ (active_endpoints = None =>
               replies = IF failed THEN <<"ERR">> ELSE <<"ERR405">>)

C21_Witness ==
    /\ lastcmd = "OPEN"
    /\ nsession >= 2
    /\ active_endpoints = None
    /\ ~failed
    /\ replies = <<"ERR405">>

(***************************************************************************)
(* Claims about shutdown.                                                  *)
(***************************************************************************)
\* C22: after the first signal the server closes only connections that
\* are weak or idle for more than max_age, a connection active within
\* max_age is closed by the server only at the second signal, and every
\* close() returns True exactly when no client remains.  (No connection
\* is accepted after a signal: ShConnect requires the open listener.)
C22_GracefulThenForced ==
    /\ \A c \in ShutClients :
          shEnd[c].by = "server" =>
              \/ shEnd[c].signals >= 2
              \/ weak_client(c)
              \/ shEnd[c].idle > max_age
    /\ shLast.ret # "" =>
          /\ shLast.ret \in {"True", "False"}
          /\ shLast.ret = "True" <=> shLast.left = 0

(***************************************************************************)
(* Claims about the names of the sub-queues.                               *)
(***************************************************************************)
\* C26: whatever the data directory, the write commands of a connection
\* that were put on a queue for the endpoint are the commands its writer
\* has taken followed by those waiting on the writer's queue, in the order
\* of issue; so a DELETE issued after an INDEX reaches the writer, and
\* after it.
C26_OneQueuePerEndpoint ==
    consumed \o named[WriterQueue] = reached

(***************************************************************************)
(* Claims about the reaper of the database pool.                           *)
(***************************************************************************)
Removed(k) == pool[k] # NoQ /\ pool'[k] = NoQ

\* C31: a sweep removes a pool entry only when its `used` set is empty and
\* its last touch lies in the past, and hands it over to be cleaned; the
\* cleaning of a removed entry closes every idle handle of that entry and
\* nothing else; no handle that is checked out is closed by the reaper, and
\* an entry of the pool that has a checked-out handle stays in the pool
\* with all its handles as they were.
C31_ReaperOnlyIdleExpired ==
    [][/\ \A k \in Keys :
             Removed(k) => /\ used[pool[k]] = {}
                           /\ qtime[pool[k]] # 0
                           /\ pool[k] \in cleanups'
                           /\ closed' = closed
       /\ \A q \in cleanups \ cleanups' :
             /\ InUnused(q) \subseteq closed'
             /\ closed' \ closed \subseteq InUnused(q)
             /\ (closed' \ closed) \cap UNION {used[r] : r \in QIds} = {}
             /\ \A k \in Keys : pool[k] # q
       /\ \A k \in Keys :
             (pool[k] # NoQ /\ used[pool[k]] # {}) =>
                 /\ pool'[k] = pool[k]
                 /\ (cleanups' # cleanups \/ \E j \in Keys : Removed(j)) =>
                        (closed' \ closed) \cap (used[pool[k]] \cup InUnused(pool[k])) = {}
      ]_vars

\* C31 witness: an entry was removed and cleaned, its idle handles are all
\* closed, while another entry with a checked-out handle is still in the
\* pool and none of its handles is closed.
C31_Witness ==
    \E q \in QIds :
        /\ cleaned[q]
        /\ q \notin cleanups
        /\ InUnused(q) # {}
        /\ InUnused(q) \subseteq closed
        /\ \E k \in Keys :
              /\ pool[k] \notin {NoQ, q}
              /\ used[pool[k]] # {}
              /\ (used[pool[k]] \cup InUnused(pool[k])) \cap closed = {}

\* C32: every handle that was opened during the run and is not closed is checked out (in
\* the `used` set of its queue), or idle in the queue of an entry of the
\* pool, or idle in a removed queue the reaper is about to clean: no
\* acquisition releases its handle into a queue that was evicted.  (The
\* new handle is added to `used`, and released, through the queue object
\* the acquisition got under the pool lock; a sweep between the two
\* removes that queue, `used` being still empty.)
C32_OpenHandlesReachable ==
    \A h \in (HandleBase + 1)..nh :
        h \notin closed =>
            \/ \E q \in QIds : h \in used[q]
            \/ \E k \in Keys : pool[k] # NoQ /\ h \in InUnused(pool[k])
            \/ \E q \in cleanups : h \in InUnused(q)

\* C33: when an acquisition ends because the index could not be opened
\* (Database(...) raised), the pool has no entry for the key of that
\* acquisition afterwards.  (The entry made by setdefault stays.)
C33_FailedKeyEvicted ==
    [][\A p \in Acquirers :
          (acq[p].pc = "open" /\ acq'[p].pc = "idle") =>
              pool'[acq[p].key] = NoQ]_vars

\* C34: when the writer takes an INDEX or CINDEX and the engine rejects
\* the document with InvalidArgumentError (at the first attempt or at the
\* retry), the documents of the endpoint stay as they were and the writer
\* is still running, ready for the next command of its sub-queue.
\* (Database.replace swallows the error and then returns a variable it
\* never assigned; the UnboundLocalError ends the writer.)
C34_RejectedIsSwallowed ==
    [][(dq # <<>> /\ dq' = Tail(dq) /\ lastop' = "REJECTED") =>
          (work' = work /\ wlife' = "running")]_vars

\* C35: when the alive check of a superseded command has raised
\* DeadException and the dispatch wrapper has caught it, the handler ends
\* with the command logged as cancelled and with no exception, and with
\* nothing sent to the client.  (command.cancelled() calls executed
\* without its `results` argument: TypeError leaves the wrapper.)
C35_CancelledIsLogged ==
    [][\A k \in Cmds :
          (hpc[k] = "cancelled" /\ hpc'[k] # "cancelled") =>
              (hpc'[k] = "logged" /\ wire' = wire)]_vars

\* the record offset the next get reads the log from (persistent.py:159-169)
ReadPos == IF spos = None THEN fpos ELSE spos[1]

\* C36: the read position of the log never moves backwards, and a get
\* that meets a record whose crc32 does not match its bytes leaves the
\* read position after that record, so that the records behind it are
\* read by later gets.  (On a mismatch _peek_file returns False and get
\* takes the position stored in the position file: the damaged record is
\* read again by every later get.)
C36_CorruptRecordIsPassed ==
    [][ngets' = ngets + 1 =>
          /\ ReadPos' >= ReadPos
          /\ (_peek_file(ReadPos).kind = "False" /\ Damaged # {}) =>
                \E i \in Damaged : i > ReadPos /\ ReadPos' >= i]_vars

(***************************************************************************)
(* Claims about reads after writes.                                        *)
(***************************************************************************)
\* C37: the reader handle a read command runs on was opened or reopened
\* after the last write or REOPEN command its connection received before
\* the read.  (dispatch reopens one handle and gives it back to the pool;
\* the handler then takes whatever handle is last in `unused`, which is
\* another one when another connection released its handle in between.)
C37_ReadOnReopenedHandle ==
    \A c \in Readers :
        rdConn[c].pc = "searching" => rdStamp[rdConn[c].h] >= rdConn[c].mark

(***************************************************************************)
(* Claims about the acknowledgement of write commands.                     *)
(***************************************************************************)
\* C38: the write commands answered >> OK are the write commands that
\* have been put on a sub-queue, in the same order: none is acknowledged
\* and dropped, with the stop flag set or with a queue that refuses the
\* put.  (_enqueue puts nothing once STOPPED is set and swallows
\* Queue.Full; its callers send >> OK whatever it did.)
C38_AckedIsEnqueued ==
    reached = issued

(***************************************************************************)
(* Claims about the numbering of commands.                                 *)
(***************************************************************************)
\* C39: after every command line the connection has received, the
\* receiver's cmd_id is the cmd_id the client gave to that command, so
\* the status line of the command carries the number the client waits
\* for.  (lineReceived makes the AliveCommand, which increments cmd_id,
\* for known commands only; the 404 line of an unknown command carries
\* the number of the command before it, which the client skips.)
C39_SameCommandNumber ==
    client_cmd_id = cmd_id

(***************************************************************************)
(* Claims about the end of the writers.                                    *)
(***************************************************************************)
\* C40: every writer that runs when the shutdown has begun eventually
\* leaves its loop, completes the forced commit pass and ends, with any
\* number of writers waiting for the commit slots and any commands left
\* on the sub-queues.  (A writer whose last command, or whose commit,
\* raises ends by the exception, without completing the pass: C24.)
C40_WritersFinishForcedPass ==
    \A w \in Writers : (STOPPED /\ wpc[w] # "dead") ~> (wpc[w] = "ended")

====
